---- MODULE Spec2Model ----
(***************************************************************************)
(* Model of the statistics and projection engine of the trading dashboard  *)
(* (utils.py and the performance-metrics routine of app.py), of the price  *)
(* cache, the position alerts and the position metrics of                  *)
(* live_positions.py, and of the portfolio risk metrics of                 *)
(* position_analytics.py.                                                  *)
(*                                                                         *)
(* Money is counted in whole units (integers); quotients are exact         *)
(* rationals [n, d] with d > 0, and the float +inf is the rational 1/0.    *)
(* A trade is a dict: a function whose domain holds the keys present.      *)
(* exit_time strings are encoded as integers whose order is the strings'   *)
(* lexical order: 0 is '', an ISO timestamp is a number of half days, and  *)
(* BadExitTime is a string that no ISO parser accepts.                     *)
(* Results that need a square root or a percentile (std_pnl, sharpe_ratio, *)
(* var_95, ...) have no exact value here and are left out of the records.  *)
(***************************************************************************)
EXTENDS Integers, Sequences, FiniteSets, TLC

VARIABLES
    trades,             \* the caller's trade list
    current_balance,    \* argument current_balance
    start_balance,      \* argument start_balance / starting_balance
    avg_daily_return,   \* calculate_projections: argument, a rational
    volatility,         \* calculate_projections: argument, a rational
    days,               \* calculate_projections: horizon
    callee,             \* the function that has returned, "none" before a call
    ret,                \* its return value
    pnl_history,        \* run_monte_carlo_simulation: argument
    n_simulations,      \* run_monte_carlo_simulation: argument
    n_trades,           \* run_monte_carlo_simulation: argument
    mc_pc,              \* run_monte_carlo_simulation: position in the function
    batch_start,        \* loop variable of the batch loop
    batch_left,         \* paths still to simulate in the current batch
    simulations,        \* list of paths built so far
    final_balances,     \* list of final balances built so far
    rng,                \* state of numpy's global random stream
    call_log,           \* get_comprehensive_projections: the results handed out
    position,           \* generate_position_alerts: argument position
    current_price_data, \* generate_position_alerts: argument current_price_data
    PRICE_CACHE,        \* live_positions.py: the module's price cache
    PRICE_CACHE_TIMESTAMP, \* time of the last fetch, None before any
    now,                \* the wall clock, in seconds
    portfolio_value,    \* argument portfolio_value of the position metrics
    positions_data,     \* calculate_portfolio_risk_metrics: argument
    symbols,            \* get_live_prices_multi_source: argument, as a set
    contacted,          \* the price sources the last call has sent a request to
    completed           \* the futures of the last call, in the order they completed

vars == <<trades, current_balance, start_balance, avg_daily_return, volatility,
          days, callee, ret, pnl_history, n_simulations, n_trades, mc_pc,
          batch_start, batch_left, simulations, final_balances, rng, call_log,
          position, current_price_data, PRICE_CACHE, PRICE_CACHE_TIMESTAMP, now,
          portfolio_value, positions_data, symbols, contacted, completed>>

statsArgs == <<trades, current_balance, start_balance>>
projArgs == <<avg_daily_return, volatility, days>>
mcVars == <<pnl_history, n_simulations, n_trades, mc_pc, batch_start,
            batch_left, simulations, final_balances>>
rngVars == <<rng, call_log>>
positionArgs == <<position, current_price_data, portfolio_value, positions_data>>
fetchVars == <<symbols, contacted, completed>>
liveVars == <<positionArgs, PRICE_CACHE, PRICE_CACHE_TIMESTAMP, now, fetchVars>>

----------------------------------------------------------------------------
(* Python values *)

None == [tag |-> "None"]
NotCalled == [tag |-> "not called"]
EmptyDict == [tag |-> "{}"]

\* the dict {} as a function with no key
EmptyCache == [k \in {} |-> None]

IsResult(x) == "tag" \notin DOMAIN x

\* the streak type is True, False or None: kept as the strings of those values
NoType == "None"
PyBool(b) == IF b THEN "True" ELSE "False"

\* dict.get(key, default)
Get(t, key, default) == IF key \in DOMAIN t THEN t[key] ELSE default

Max(a, b) == IF a >= b THEN a ELSE b
Min(a, b) == IF a <= b THEN a ELSE b
Abs(a) == IF a >= 0 THEN a ELSE -a

RECURSIVE GCD(_, _)
GCD(a, b) == IF b = 0 THEN a ELSE GCD(b, a % b)

\* the exact quotient n / d, d # 0, in lowest terms with a positive denominator
Frac(n, d) ==
    LET g == GCD(Abs(n), Abs(d))
        s == IF d < 0 THEN -1 ELSE 1
    IN [n |-> s * (n \div g), d |-> s * (d \div g)]

Int2R(k) == [n |-> k, d |-> 1]
Inf == [n |-> 1, d |-> 0]
IsInf(x) == x.d = 0
RAdd(x, y) == Frac(x.n * y.d + y.n * x.d, x.d * y.d)
RSub(x, y) == Frac(x.n * y.d - y.n * x.d, x.d * y.d)
RMul(x, y) == Frac(x.n * y.n, x.d * y.d)
RDiv(x, y) == Frac(x.n * y.d, x.d * y.n)
RLe(x, y) == x.n * y.d <= y.n * x.d
RLt(x, y) == x.n * y.d < y.n * x.d
RPos(x) == x.n > 0

RECURSIVE Sum(_)
Sum(s) == IF s = <<>> THEN 0 ELSE Head(s) + Sum(Tail(s))

RECURSIVE MaxOf(_)
MaxOf(s) == IF Len(s) = 1 THEN s[1] ELSE Max(s[1], MaxOf(Tail(s)))

RECURSIVE MinOf(_)
MinOf(s) == IF Len(s) = 1 THEN s[1] ELSE Min(s[1], MinOf(Tail(s)))

Reverse(s) == [i \in 1..Len(s) |-> s[Len(s) + 1 - i]]

----------------------------------------------------------------------------
(* Trades *)

EmptyStr == 0
BadExitTime == 9
IsoTimes == {2, 3, 4, 6}

\* the key of sorted(trades, key=lambda x: x.get('exit_time', ''))
ExitKey(t) == Get(t, "exit_time", EmptyStr)

\* list.insert position of Python's stable sort: after every element whose
\* key is not greater
RECURSIVE InsertStable(_, _)
InsertStable(s, t) ==
    IF s = <<>> THEN <<t>>
    ELSE IF ExitKey(s[Len(s)]) <= ExitKey(t) THEN Append(s, t)
    ELSE Append(InsertStable(SubSeq(s, 1, Len(s) - 1), t), s[Len(s)])

SortedByExitMutant(s) == s
RECURSIVE SortedByExit(_)
SortedByExit(s) ==
    IF s = <<>> THEN <<>>
    ELSE InsertStable(SortedByExit(SubSeq(s, 1, Len(s) - 1)), s[Len(s)])

PnlOf(t) == Get(t, "pnl", 0)

IsWinMutant(t) == PnlOf(t) >= 0
\* t.get('pnl', 0) > 0
IsWin(t) == PnlOf(t) > 0

\* t.get('pnl', 0) <= 0
IsLoss(t) == PnlOf(t) <= 0

PnlValues(s) == [i \in 1..Len(s) |-> PnlOf(s[i])]

----------------------------------------------------------------------------
(* utils.py: calculate_trade_statistics *)

Winning(s) == SelectSeq(s, IsWin)
LosingMutant(s) == SelectSeq(s, LAMBDA t : PnlOf(t) < 0)
Losing(s) == SelectSeq(s, IsLoss)

\* gross_profit / gross_loss if gross_loss > 0 else float('inf')
ProfitFactor(gross_profit, gross_loss) ==
    IF gross_loss > 0 THEN Frac(gross_profit, gross_loss) ELSE Inf

\* avg_win / avg_loss if avg_loss > 0 else float('inf')
RiskReward(avg_win, avg_loss) ==
    IF RPos(avg_loss) THEN RDiv(avg_win, avg_loss) ELSE Inf

\* one pass of the loop "for t in sorted_trades" that keeps the running maxima
StreakStep(a, t) ==
    IF IsWin(t)
    THEN [a EXCEPT !.current_win_streak = a.current_win_streak + 1,
                   !.current_loss_streak = 0,
                   !.max_win_streak = Max(a.max_win_streak, a.current_win_streak + 1)]
    ELSE [a EXCEPT !.current_loss_streak = a.current_loss_streak + 1,
                   !.current_win_streak = 0,
                   !.max_loss_streak = Max(a.max_loss_streak, a.current_loss_streak + 1)]

RECURSIVE StreakLoop(_, _, _)
StreakLoop(s, i, a) ==
    IF i > Len(s) THEN a ELSE StreakLoop(s, i + 1, StreakStep(a, s[i]))

MaxStreaksMutant(sorted_trades) ==
    StreakLoop(Tail(sorted_trades), 1,
               [max_win_streak |-> 0, max_loss_streak |-> 0,
                current_win_streak |-> 0, current_loss_streak |-> 0])
MaxStreaks(sorted_trades) ==
    StreakLoop(sorted_trades, 1,
               [max_win_streak |-> 0, max_loss_streak |-> 0,
                current_win_streak |-> 0, current_loss_streak |-> 0])

\* the loop "for t in reversed(sorted_trades)", left by break at the first
\* trade of the other outcome; r is the reversed list
RECURSIVE RecentLoop(_, _, _)
RecentLoop(r, i, a) ==
    IF i > Len(r) THEN a
    ELSE IF a.current_streak_type = NoType
         THEN RecentLoop(r, i + 1, [current_streak |-> 1,
                                    current_streak_type |-> PyBool(IsWin(r[i]))])
    ELSE IF PyBool(IsWin(r[i])) = a.current_streak_type
         THEN RecentLoop(r, i + 1, [a EXCEPT !.current_streak = a.current_streak + 1])
    ELSE a

CurrentStreak(sorted_trades) ==
    RecentLoop(Reverse(sorted_trades), 1,
               [current_streak |-> 0, current_streak_type |-> NoType])

calculate_trade_statistics(ts) ==
    IF ts = <<>> THEN None
    ELSE
    LET total_trades == Len(ts)
        pnl_values == PnlValues(ts)
        winning_trades == Winning(ts)
        losing_trades == Losing(ts)
        win_count == Len(winning_trades)
        loss_count == Len(losing_trades)
        win_rate == IF total_trades > 0 THEN Frac(win_count, total_trades) ELSE Int2R(0)
        gross_profit == Sum(PnlValues(winning_trades))
        gross_loss == Abs(Sum(PnlValues(losing_trades)))
        net_pnl == gross_profit - gross_loss
        avg_win == IF win_count > 0 THEN Frac(gross_profit, win_count) ELSE Int2R(0)
        avg_loss == IF loss_count > 0 THEN Frac(gross_loss, loss_count) ELSE Int2R(0)
        profit_factor == ProfitFactor(gross_profit, gross_loss)
        risk_reward == RiskReward(avg_win, avg_loss)
        expectancy == RSub(RMul(win_rate, avg_win),
                           RMul(RSub(Int2R(1), win_rate), avg_loss))
        sorted_trades == SortedByExit(ts)
        m == MaxStreaks(sorted_trades)
        c == CurrentStreak(sorted_trades)
    IN [total_trades |-> total_trades,
        win_count |-> win_count,
        loss_count |-> loss_count,
        win_rate |-> RMul(win_rate, Int2R(100)),
        gross_profit |-> gross_profit,
        gross_loss |-> gross_loss,
        net_pnl |-> net_pnl,
        avg_win |-> avg_win,
        avg_loss |-> avg_loss,
        profit_factor |-> profit_factor,
        risk_reward |-> risk_reward,
        expectancy |-> expectancy,
        mean_pnl |-> Frac(Sum(pnl_values), total_trades),
        best_trade |-> MaxOf(pnl_values),
        worst_trade |-> MinOf(pnl_values),
        max_win_streak |-> m.max_win_streak,
        max_loss_streak |-> m.max_loss_streak,
        current_streak |-> c.current_streak,
        current_streak_type |-> c.current_streak_type,
        pnl_values |-> pnl_values]

----------------------------------------------------------------------------
(* app.py: calculate_performance_metrics, called without period_days *)

\* the loop "for balance in equity_curve" of the drawdown calculation
RECURSIVE DrawdownLoop(_, _, _)
DrawdownLoop(curve, i, a) ==
    IF i > Len(curve) THEN a
    ELSE
    LET balance == curve[i]
        peak == IF balance > a.peak THEN balance ELSE a.peak
        drawdown == peak - balance
        drawdown_pct == IF peak > 0 THEN Frac(drawdown * 100, peak) ELSE Int2R(0)
    IN DrawdownLoop(curve, i + 1,
           IF RLt(a.max_drawdown_pct, drawdown_pct)
           THEN [peak |-> peak, max_drawdown |-> drawdown,
                 max_drawdown_pct |-> drawdown_pct]
           ELSE [a EXCEPT !.peak = peak])

RECURSIVE EquityCurve(_, _)
EquityCurve(starting_balance, sorted_trades) ==
    IF sorted_trades = <<>> THEN <<starting_balance>>
    ELSE LET c == EquityCurve(starting_balance,
                              SubSeq(sorted_trades, 1, Len(sorted_trades) - 1))
         IN Append(c, c[Len(c)] + PnlOf(sorted_trades[Len(sorted_trades)]))

\* the streak loop that flushes the running streak when the outcome changes
FlushStep(a, t) ==
    LET is_win == PyBool(IsWin(t)) IN
    IF a.current_streak_type = NoType
    THEN [a EXCEPT !.current_streak_type = is_win, !.current_streak = 1]
    ELSE IF is_win = a.current_streak_type
    THEN [a EXCEPT !.current_streak = a.current_streak + 1]
    ELSE IF a.current_streak_type = "True"
    THEN [a EXCEPT !.max_win_streak = Max(a.max_win_streak, a.current_streak),
                   !.current_streak_type = is_win, !.current_streak = 1]
    ELSE [a EXCEPT !.max_loss_streak = Max(a.max_loss_streak, a.current_streak),
                   !.current_streak_type = is_win, !.current_streak = 1]

RECURSIVE FlushLoop(_, _, _)
FlushLoop(s, i, a) ==
    IF i > Len(s) THEN a ELSE FlushLoop(s, i + 1, FlushStep(a, s[i]))

FlushStreaksMutant(sorted_trades) ==
    FlushLoop(sorted_trades, 1,
        [current_streak |-> 0, current_streak_type |-> NoType,
         max_win_streak |-> 0, max_loss_streak |-> 0])

\* the loop and the "final streak check" after it
FlushStreaks(sorted_trades) ==
    LET a == FlushLoop(sorted_trades, 1,
                 [current_streak |-> 0, current_streak_type |-> NoType,
                  max_win_streak |-> 0, max_loss_streak |-> 0])
    IN IF a.current_streak_type = "True"
       THEN [a EXCEPT !.max_win_streak = Max(a.max_win_streak, a.current_streak)]
       ELSE [a EXCEPT !.max_loss_streak = Max(a.max_loss_streak, a.current_streak)]

\* loss_rate = 100 - win_rate
LossRate(win_rate) == RSub(Int2R(100), win_rate)

calculate_performance_metrics(ts, starting_balance, cur_balance) ==
    IF ts = <<>> THEN None
    ELSE
    LET total_trades == Len(ts)
        winning_trades == Winning(ts)
        losing_trades == Losing(ts)
        win_count == Len(winning_trades)
        loss_count == Len(losing_trades)
        win_rate == IF total_trades > 0 THEN Frac(win_count * 100, total_trades)
                    ELSE Int2R(0)
        loss_rate == LossRate(win_rate)
        gross_profit == Sum(PnlValues(winning_trades))
        gross_loss == Abs(Sum(PnlValues(losing_trades)))
        net_pnl == gross_profit - gross_loss
        avg_win == IF win_count > 0 THEN Frac(gross_profit, win_count) ELSE Int2R(0)
        avg_loss == IF loss_count > 0 THEN Frac(gross_loss, loss_count) ELSE Int2R(0)
        profit_factor == ProfitFactor(gross_profit, gross_loss)
        risk_reward_ratio == RiskReward(avg_win, avg_loss)
        expectancy == RSub(RMul(RDiv(win_rate, Int2R(100)), avg_win),
                           RMul(RDiv(loss_rate, Int2R(100)), avg_loss))
        sorted_trades == SortedByExit(ts)
        equity_curve == EquityCurve(starting_balance, sorted_trades)
        dd == DrawdownLoop(equity_curve, 1,
                  [peak |-> equity_curve[1], max_drawdown |-> 0,
                   max_drawdown_pct |-> Int2R(0)])
        f == FlushStreaks(sorted_trades)
        c == CurrentStreak(sorted_trades)
    IN [total_trades |-> total_trades,
        win_count |-> win_count,
        loss_count |-> loss_count,
        win_rate |-> win_rate,
        loss_rate |-> loss_rate,
        gross_profit |-> gross_profit,
        gross_loss |-> gross_loss,
        net_pnl |-> net_pnl,
        avg_win |-> avg_win,
        avg_loss |-> avg_loss,
        profit_factor |-> profit_factor,
        risk_reward_ratio |-> risk_reward_ratio,
        expectancy |-> expectancy,
        max_drawdown |-> dd.max_drawdown,
        max_drawdown_pct |-> dd.max_drawdown_pct,
        best_trade |-> MaxOf(PnlValues(ts)),
        worst_trade |-> MinOf(PnlValues(ts)),
        max_win_streak |-> f.max_win_streak,
        max_loss_streak |-> f.max_loss_streak,
        current_streak |-> c.current_streak,
        current_streak_type |-> c.current_streak_type,
        equity_curve |-> equity_curve]

----------------------------------------------------------------------------
(* utils.py: calculate_projections *)

RPowMutant(x, k) == x
RECURSIVE RPow(_, _)
RPow(x, k) == IF k = 0 THEN Int2R(1) ELSE RMul(x, RPow(x, k - 1))

RMax(x, y) == IF RLe(y, x) THEN x ELSE y

\* confidence_z: float = 1.96
confidence_z == Frac(196, 100)

\* current_balance * 0.1
FloorAt(cur_balance) == RMul(Int2R(cur_balance), Frac(1, 10))

calculate_projections(cur_balance, daily_return, vol, ndays) ==
    LET growth_factor == RPow(RAdd(Int2R(1), daily_return), ndays)
        projected_balance == RMul(Int2R(cur_balance), growth_factor)
        upper_factor ==
            RPow(RAdd(RAdd(Int2R(1), daily_return), RMul(confidence_z, vol)), ndays)
        lower_factor ==
            RPow(RSub(RAdd(Int2R(1), daily_return), RMul(confidence_z, vol)), ndays)
        upper_balance == RMul(Int2R(cur_balance), upper_factor)
        lower_balance == RMax(RMul(Int2R(cur_balance), lower_factor), FloorAt(cur_balance))
    IN [projected |-> projected_balance,
        upper_95 |-> upper_balance,
        lower_95 |-> lower_balance,
        expected_pnl |-> RSub(projected_balance, Int2R(cur_balance)),
        upper_pnl |-> RSub(upper_balance, Int2R(cur_balance)),
        lower_pnl |-> RSub(lower_balance, Int2R(cur_balance)),
        return_pct |-> RMul(RSub(growth_factor, Int2R(1)), Int2R(100)),
        upper_return_pct |-> RMul(RSub(upper_factor, Int2R(1)), Int2R(100)),
        lower_return_pct |-> RMul(RSub(lower_factor, Int2R(1)), Int2R(100))]

----------------------------------------------------------------------------
(* utils.py: run_monte_carlo_simulation.  Amounts are in hundredths, so    *)
(* that the floor 0.01 of a path entry is 1.                               *)

MinHistory == 5
BatchSize == 100
MinPathEntry == 1

\* the pair (None, None)
NonePair == [tag |-> "None, None"]

\* batch_size = min(100, n_simulations)
batch_size == Min(BatchSize, n_simulations)

\* max(balance, 0.01)
PathEntry(balance) == Max(balance, MinPathEntry)

\* the loop "for trade_pnl in random_trades" from position i, with the
\* running balance and the path so far
RECURSIVE PathLoop(_, _, _, _)
PathLoop(random_trades, i, balance, path) ==
    IF i > Len(random_trades) THEN [balance |-> balance, path |-> path]
    ELSE LET b == balance + random_trades[i]
         IN PathLoop(random_trades, i + 1, b, Append(path, PathEntry(b)))

\* "if not pnl_history or len(pnl_history) < 5: return None, None"
MCTooFew ==
    /\ mc_pc = "called"
    /\ Len(pnl_history) < MinHistory
    /\ mc_pc' = "done"
    /\ callee' = "run_monte_carlo_simulation"
    /\ ret' = NonePair
    /\ UNCHANGED <<statsArgs, projArgs, rngVars, liveVars,
                   pnl_history, n_simulations, n_trades,
                   batch_start, batch_left, simulations, final_balances>>

\* range(0, n_simulations, batch_size) with batch_size 0 raises ValueError,
\* which the except clause turns into None, None
MCRangeError ==
    /\ mc_pc = "called"
    /\ Len(pnl_history) >= MinHistory
    /\ batch_size = 0
    /\ mc_pc' = "done"
    /\ callee' = "run_monte_carlo_simulation"
    /\ ret' = NonePair
    /\ UNCHANGED <<statsArgs, projArgs, rngVars, liveVars,
                   pnl_history, n_simulations, n_trades,
                   batch_start, batch_left, simulations, final_balances>>

\* the try block is entered and the batch loop starts at batch_start = 0
MCStart ==
    /\ mc_pc = "called"
    /\ Len(pnl_history) >= MinHistory
    /\ batch_size > 0
    /\ mc_pc' = "batch"
    /\ batch_start' = 0
    /\ simulations' = <<>>
    /\ final_balances' = <<>>
    /\ UNCHANGED <<statsArgs, projArgs, rngVars, liveVars,
                   callee, ret, pnl_history, n_simulations,
                   n_trades, batch_left>>

MCBatchMutant ==
    /\ mc_pc = "batch"
    /\ batch_start < n_simulations
    /\ batch_left' = batch_size
    /\ mc_pc' = "path"
    /\ UNCHANGED <<statsArgs, projArgs, rngVars, liveVars,
                   callee, ret, pnl_history, n_simulations,
                   n_trades, batch_start, simulations, final_balances>>

\* one pass of "for batch_start in range(0, n_simulations, batch_size)":
\* batch_size_actual = batch_end - batch_start
MCBatch ==
    /\ mc_pc = "batch"
    /\ batch_start < n_simulations
    /\ batch_left' = Min(batch_start + batch_size, n_simulations) - batch_start
    /\ mc_pc' = "path"
    /\ UNCHANGED <<statsArgs, projArgs, rngVars, liveVars,
                   callee, ret, pnl_history, n_simulations,
                   n_trades, batch_start, simulations, final_balances>>

\* one pass of "for _ in range(batch_size_actual)": a path of n_trades
\* values drawn with replacement from pnl_history
MCPath ==
    /\ mc_pc = "path"
    /\ batch_left > 0
    /\ \E draw \in [1..n_trades -> 1..Len(pnl_history)] :
          LET random_trades == [i \in 1..n_trades |-> pnl_history[draw[i]]]
              r == PathLoop(random_trades, 1, start_balance, <<start_balance>>)
          IN /\ simulations' = Append(simulations, r.path)
             /\ final_balances' = Append(final_balances, r.balance)
    /\ batch_left' = batch_left - 1
    /\ UNCHANGED <<statsArgs, projArgs, rngVars, liveVars,
                   callee, ret, pnl_history, n_simulations,
                   n_trades, mc_pc, batch_start>>

\* the inner loop is exhausted: the batch loop takes its next value
MCBatchEnd ==
    /\ mc_pc = "path"
    /\ batch_left = 0
    /\ batch_start' = batch_start + batch_size
    /\ mc_pc' = "batch"
    /\ UNCHANGED <<statsArgs, projArgs, rngVars, liveVars,
                   callee, ret, pnl_history, n_simulations,
                   n_trades, batch_left, simulations, final_balances>>

\* return np.array(simulations), np.array(final_balances)
MCReturn ==
    /\ mc_pc = "batch"
    /\ batch_start >= n_simulations
    /\ mc_pc' = "done"
    /\ callee' = "run_monte_carlo_simulation"
    /\ ret' = [simulations |-> simulations, final_balances |-> final_balances]
    /\ UNCHANGED <<statsArgs, projArgs, rngVars, liveVars,
                   pnl_history, n_simulations, n_trades,
                   batch_start, batch_left, simulations, final_balances>>

----------------------------------------------------------------------------
(* utils.py: calculate_daily_returns *)

\* datetime.fromisoformat(...) succeeds
Parses(e) == e > EmptyStr /\ e < BadExitTime

DateOfMutant(e) == e
\* exit_time.date(): two half days to the day
DateOf(e) == e \div 2

\* (last_trade - first_trade).days: whole days elapsed
DaysBetween(first, last) == (last - first) \div 2

RECURSIVE SortedSeqOf(_)
SortedSeqOf(S) ==
    IF S = {} THEN <<>>
    ELSE LET m == CHOOSE x \in S : \A y \in S : x <= y
         IN <<m>> \o SortedSeqOf(S \ {m})

\* the loop "for trade in sorted_trades": a trade whose exit_time parses adds
\* its pnl to daily_pnls[day_key], any other trade is skipped by the except
RECURSIVE GroupLoop(_, _, _)
GroupLoop(sorted_trades, i, daily_pnls) ==
    IF i > Len(sorted_trades) THEN daily_pnls
    ELSE LET trade == sorted_trades[i] IN
         IF Parses(ExitKey(trade))
         THEN LET day_key == DateOf(ExitKey(trade))
                  before == IF day_key \in DOMAIN daily_pnls THEN daily_pnls[day_key]
                            ELSE 0
              IN GroupLoop(sorted_trades, i + 1,
                           [k \in DOMAIN daily_pnls \cup {day_key} |->
                               IF k = day_key THEN before + PnlOf(trade)
                               ELSE daily_pnls[k]])
         ELSE GroupLoop(sorted_trades, i + 1, daily_pnls)

\* daily_pnls after the grouping loop
DailyPnls(ts) == GroupLoop(SortedByExit(ts), 1, [k \in {} |-> 0])

\* daily_pnls[day_key]
DayPnl(ts, day) == DailyPnls(ts)[day]

\* daily_pnls.keys()
DayKeys(ts) == DOMAIN DailyPnls(ts)

RECURSIVE DailyReturnsLoopMutant(_, _, _, _, _)
DailyReturnsLoopMutant(ts, day_keys, i, running_balance, daily_returns) ==
    IF i > Len(day_keys) THEN daily_returns
    ELSE LET day_pnl == DayPnl(ts, day_keys[i])
             day_return == IF running_balance > 0 THEN Frac(day_pnl, running_balance)
                           ELSE Int2R(0)
         IN DailyReturnsLoopMutant(ts, day_keys, i + 1, running_balance,
                                   Append(daily_returns, day_return))

\* the loop "for day_key in sorted(daily_pnls.keys())"
RECURSIVE DailyReturnsLoop(_, _, _, _, _)
DailyReturnsLoop(ts, day_keys, i, running_balance, daily_returns) ==
    IF i > Len(day_keys) THEN daily_returns
    ELSE LET day_pnl == DayPnl(ts, day_keys[i])
             day_return == IF running_balance > 0 THEN Frac(day_pnl, running_balance)
                           ELSE Int2R(0)
         IN DailyReturnsLoop(ts, day_keys, i + 1, running_balance + day_pnl,
                             Append(daily_returns, day_return))

RECURSIVE RSum(_)
RSum(s) == IF s = <<>> THEN Int2R(0) ELSE RAdd(Head(s), RSum(Tail(s)))

\* total_days: the span of the first and last sorted trade, or the fallback
\* max(len(trades) / 2, 1) when one of the two does not parse
TotalDays(ts) ==
    LET sorted_trades == SortedByExit(ts)
        first == ExitKey(sorted_trades[1])
        last == ExitKey(sorted_trades[Len(sorted_trades)])
    IN IF Parses(first) /\ Parses(last)
       THEN Int2R(Max(DaysBetween(first, last), 1))
       ELSE RMax(Frac(Len(ts), 2), Int2R(1))

calculate_daily_returns(ts, cur_balance, s_balance) ==
    IF ts = <<>> THEN None
    ELSE IF DayKeys(ts) = {} THEN None
    ELSE
    LET total_days == TotalDays(ts)
        daily_returns ==
            DailyReturnsLoop(ts, SortedSeqOf(DayKeys(ts)), 1, s_balance, <<>>)
    IN [daily_returns |-> daily_returns,
        avg_daily_return |-> RDiv(RSum(daily_returns), Int2R(Len(daily_returns))),
        total_days |-> total_days,
        trading_days |-> Cardinality(DayKeys(ts)),
        avg_trades_per_day |-> IF RPos(total_days) THEN RDiv(Int2R(Len(ts)), total_days)
                               ELSE Int2R(0)]

----------------------------------------------------------------------------
(* utils.py: calculate_moving_averages, calculate_linear_regression_trend, *)
(* calculate_volatility_metrics.  The exponential averages, whose          *)
(* denominators outgrow the integers, are left out.                        *)

Windows == <<5, 10, 20>>

\* sma_values of one window
SmaValues(pnl_values, window) ==
    [k \in 1..(Len(pnl_values) - window + 1) |->
        Frac(Sum(SubSeq(pnl_values, k, k + window - 1)), window)]

calculate_moving_averages(pnl_values) ==
    IF pnl_values = <<>> \/ Len(pnl_values) < MinOf(Windows) THEN EmptyDict
    ELSE [i \in {j \in DOMAIN Windows : Len(pnl_values) >= Windows[j]} |->
             [window |-> Windows[i], sma |-> SmaValues(pnl_values, Windows[i])]]

MinTrendPoints == 3

\* least squares of pnl_values against the index 0 .. n - 1.  With
\* A = n Sxy - Sx Sy, B = n Sxx - Sx Sx and C = n Syy - Sy Sy the code's
\* numerator / denominator is A / B and its 1 - ss_res / ss_tot is
\* A A / (B C); ss_tot = 0 exactly when C = 0.
calculate_linear_regression_trend(pnl_values) ==
    IF pnl_values = <<>> \/ Len(pnl_values) < MinTrendPoints THEN EmptyDict
    ELSE
    LET n == Len(pnl_values)
        Sx == Sum([i \in 1..n |-> i - 1])
        Sy == Sum(pnl_values)
        Sxy == Sum([i \in 1..n |-> (i - 1) * pnl_values[i]])
        Sxx == Sum([i \in 1..n |-> (i - 1) * (i - 1)])
        Syy == Sum([i \in 1..n |-> pnl_values[i] * pnl_values[i]])
        A == n * Sxy - Sx * Sy
        B == n * Sxx - Sx * Sx
        C == n * Syy - Sy * Sy
        slope == IF B = 0 THEN Int2R(0) ELSE Frac(A, B)
        r_squared == IF C = 0 THEN Int2R(0) ELSE Frac(A * A, B * C)
    IN [slope |-> slope,
        intercept |-> RSub(Frac(Sy, n), RMul(slope, Frac(Sx, n))),
        r_squared |-> r_squared,
        trend_direction |-> IF slope.n > 0 THEN "upward"
                            ELSE IF slope.n < 0 THEN "downward" ELSE "flat",
        current_trend_strength |-> Frac(Abs(r_squared.n), r_squared.d),
        daily_trend_pnl |-> slope]

MinVolatilityPoints == 2

\* np.cumsum
CumSum(v) == [k \in 1..Len(v) |-> Sum(SubSeq(v, 1, k))]

MaxDrawdownOfMutant(pnl_values) ==
    LET cumulative_pnl == CumSum(pnl_values)
        peak == [k \in 1..Len(cumulative_pnl) |->
                    Max(0, MaxOf(SubSeq(cumulative_pnl, 1, k)))]
        drawdown == [k \in 1..Len(cumulative_pnl) |-> peak[k] - cumulative_pnl[k]]
    IN IF Len(drawdown) > 0 THEN MaxOf(drawdown) ELSE 0

\* np.max(np.maximum.accumulate(cumulative_pnl) - cumulative_pnl)
MaxDrawdownOf(pnl_values) ==
    LET cumulative_pnl == CumSum(pnl_values)
        peak == [k \in 1..Len(cumulative_pnl) |-> MaxOf(SubSeq(cumulative_pnl, 1, k))]
        drawdown == [k \in 1..Len(cumulative_pnl) |-> peak[k] - cumulative_pnl[k]]
    IN IF Len(drawdown) > 0 THEN MaxOf(drawdown) ELSE 0

VolatilityMetricsMutant(pnl_values) ==
    IF pnl_values = <<>> THEN EmptyDict
    ELSE [max_drawdown |-> MaxDrawdownOf(pnl_values)]

calculate_volatility_metrics(pnl_values) ==
    IF pnl_values = <<>> \/ Len(pnl_values) < MinVolatilityPoints THEN EmptyDict
    ELSE [max_drawdown |-> MaxDrawdownOf(pnl_values)]

----------------------------------------------------------------------------
(* utils.py: get_comprehensive_projections.  The horizons 7, 30 and 90     *)
(* put the projected balances and the 1000-path percentiles beyond exact   *)
(* integer arithmetic: a projection is the dict of its keys, each value    *)
(* the call that computes it, and a Monte Carlo summary is the dict of its *)
(* keys with the number of paths and of trades per path behind it.         *)

MinProjectionTrades == 10
OrchestratorSims == 1000

Horizons == <<[period |-> "7d", days |-> 7, min_trades |-> 5],
              [period |-> "30d", days |-> 30, min_trades |-> 10],
              [period |-> "90d", days |-> 90, min_trades |-> 20]>>

Periods == {Horizons[i].period : i \in DOMAIN Horizons}
HorizonOf(period) == CHOOSE h \in {Horizons[i] : i \in DOMAIN Horizons} : h.period = period

ProjectionKeys ==
    {"projected", "upper_95", "lower_95", "expected_pnl", "upper_pnl", "lower_pnl",
     "return_pct", "upper_return_pct", "lower_return_pct"}

\* calculate_projections(current_balance, avg_daily_return, volatility, days)
ProjectionCall(ndays) ==
    [k \in ProjectionKeys |-> [call |-> "calculate_projections", days |-> ndays, key |-> k]]

\* the names bound in the function's frame when the trend loop runs
LocalNames ==
    {"trades", "current_balance", "start_balance", "daily_stats", "trade_stats",
     "pnl_values", "moving_averages", "trend_analysis", "volatility_metrics",
     "proj_7d", "proj_30d", "proj_90d", "trend_daily_pnl", "trend_strength",
     "trend_weight", "period", "days"}

\* min(trend_strength, 0.8)
TrendWeight(trend_strength) == IF RLe(trend_strength, Frac(8, 10)) THEN trend_strength
                               ELSE Frac(8, 10)

\* one pass of "for period, days in [('7d', 7), ('30d', 30), ('90d', 90)]"
\* under "if trend_analysis:"; base_proj is locals()[f'proj_{period}']
TrendBlend(base_proj, period, ndays, trend_analysis) ==
    IF trend_analysis = EmptyDict THEN base_proj
    ELSE IF period \in LocalNames
    THEN LET trend_daily_pnl == trend_analysis.daily_trend_pnl
             trend_strength == trend_analysis.current_trend_strength
             trend_contribution ==
                 RMul(RMul(trend_daily_pnl, Int2R(ndays)), TrendWeight(trend_strength))
         IN [k \in DOMAIN base_proj \cup {"trend_adjusted", "trend_confidence"} |->
                IF k = "trend_adjusted"
                THEN [base |-> base_proj.projected, plus |-> trend_contribution]
                ELSE IF k = "trend_confidence" THEN trend_strength
                ELSE base_proj[k]]
    ELSE base_proj

\* int(x) of a non-negative quotient
IntPart(x) == x.n \div x.d

MCSummaryKeys ==
    {"p5", "p25", "p50", "p75", "p95", "prob_profit", "prob_10pct_gain",
     "prob_10pct_loss", "prob_25pct_loss"}

\* whether run_monte_carlo_simulation returns None, None
MCReturnsNone(history, sims) == Len(history) < MinHistory \/ Min(BatchSize, sims) = 0

\* the values np.random.choice draws in one run_monte_carlo_simulation call
DrawsOf(pnl_values, sims, path_trades) ==
    IF MCReturnsNone(pnl_values, sims) THEN 0 ELSE sims * path_trades

\* the random stream after n more values have been drawn from it
StreamAfter(stream, n) == [stream EXCEPT !.drawn = @ + n]

\* get_mc_percentiles(mc[1], current_balance) if mc[1] is not None else None,
\* for mc = run_monte_carlo_simulation(pnl_values, current_balance, sims, path_trades)
\* whose draws start at the given state of the random stream
MCSummary(pnl_values, sims, path_trades, stream) ==
    IF MCReturnsNone(pnl_values, sims) THEN None
    ELSE [k \in MCSummaryKeys |->
             [paths |-> sims, trades_per_path |-> path_trades, stream |-> stream,
              key |-> k]]

\* max(int(avg_trades_per_day * days), min_trades)
PathTrades(h, daily_stats) ==
    Max(IntPart(RMul(Int2R(h.days), daily_stats.avg_trades_per_day)), h.min_trades)

StreamAtMutant(i, pnl_values, daily_stats, stream) ==
    [seed |-> stream.seed, drawn |-> Len(call_log)]

\* the state of the random stream when the Monte Carlo call of horizon
\* number i starts: the calls of the horizons before it have drawn theirs
RECURSIVE StreamAt(_, _, _, _)
StreamAt(i, pnl_values, daily_stats, stream) ==
    IF i = 1 THEN stream
    ELSE StreamAfter(StreamAt(i - 1, pnl_values, daily_stats, stream),
                     DrawsOf(pnl_values, OrchestratorSims,
                             PathTrades(Horizons[i - 1], daily_stats)))

HorizonIndex(period) == CHOOSE i \in DOMAIN Horizons : Horizons[i].period = period

TooFewTradesMutant(ts) == ts = <<>> \/ Len(ts) <= MinProjectionTrades
\* not trades or len(trades) < 10
TooFewTrades(ts) == ts = <<>> \/ Len(ts) < MinProjectionTrades

get_comprehensive_projections(ts, cur_balance, s_balance) ==
    IF TooFewTrades(ts) THEN None
    ELSE
    LET daily_stats == calculate_daily_returns(ts, cur_balance, s_balance) IN
    IF daily_stats = None THEN None
    ELSE
    LET trade_stats == calculate_trade_statistics(ts)
        pnl_values == trade_stats.pnl_values
        moving_averages == calculate_moving_averages(pnl_values)
        trend_analysis == calculate_linear_regression_trend(pnl_values)
        volatility_metrics == calculate_volatility_metrics(pnl_values)
    IN [daily_stats |-> daily_stats,
        trade_stats |-> trade_stats,
        moving_averages |-> moving_averages,
        trend_analysis |-> trend_analysis,
        volatility_metrics |-> volatility_metrics,
        math_projections |->
            [p \in Periods |->
                TrendBlend(ProjectionCall(HorizonOf(p).days), p, HorizonOf(p).days,
                           trend_analysis)],
        monte_carlo |->
            [p \in Periods |->
                MCSummary(pnl_values, OrchestratorSims,
                          PathTrades(HorizonOf(p), daily_stats),
                          StreamAt(HorizonIndex(p), pnl_values, daily_stats, rng))],
        methods |-> [monte_carlo |-> "5,000 bootstrapped simulations"]]

\* numpy's global stream when get_comprehensive_projections returns
StreamAfterProjections(ts, cur_balance, s_balance) ==
    IF TooFewTrades(ts) THEN rng
    ELSE
    LET daily_stats == calculate_daily_returns(ts, cur_balance, s_balance) IN
    IF daily_stats = None THEN rng
    ELSE StreamAt(Len(Horizons) + 1, PnlValues(ts), daily_stats, rng)

----------------------------------------------------------------------------
(* Inputs of the statistics functions *)

MaxTrades == 3
StartBalances == {0, 3}

\* complete trades (a scratch trade and a loss on the first day, a win at
\* the very time of that loss, a loss and a win on the third day), a trade
\* without 'pnl', one without 'exit_time', and one whose exit_time is not an
\* ISO timestamp
TradeSet ==
    {[pnl |-> 0, exit_time |-> 2], [pnl |-> -1, exit_time |-> 3],
     [pnl |-> 2, exit_time |-> 3], [pnl |-> -1, exit_time |-> 6],
     [pnl |-> 2, exit_time |-> 6],
     [exit_time |-> 4], [pnl |-> 2], [pnl |-> -1, exit_time |-> BadExitTime]}

TradeLists == UNION {[1..n -> TradeSet] : n \in 0..MaxTrades}

MCIdle ==
    /\ pnl_history = <<>>
    /\ n_simulations = 0
    /\ n_trades = 0
    /\ mc_pc = "idle"
    /\ batch_start = 0
    /\ batch_left = 0
    /\ simulations = <<>>
    /\ final_balances = <<>>

ProjIdle ==
    /\ avg_daily_return = 0
    /\ volatility = 0
    /\ days = 0

\* no call of get_comprehensive_projections yet, the stream in its first state
RngIdle ==
    /\ rng = [seed |-> 0, drawn |-> 0]
    /\ call_log = <<>>

\* live_positions.py as loaded: PRICE_CACHE = {}, PRICE_CACHE_TIMESTAMP = None
LiveIdle ==
    /\ position = EmptyDict
    /\ current_price_data = EmptyDict
    /\ PRICE_CACHE = EmptyCache
    /\ PRICE_CACHE_TIMESTAMP = None
    /\ now = 0
    /\ portfolio_value = 0
    /\ positions_data = EmptyDict
    /\ symbols = {}
    /\ contacted = {}
    /\ completed = <<>>

InitStats ==
    /\ trades \in TradeLists
    /\ start_balance \in StartBalances
    /\ current_balance = start_balance + Sum(PnlValues(trades))
    /\ callee = "none"
    /\ ret = NotCalled
    /\ ProjIdle
    /\ MCIdle
    /\ RngIdle
    /\ LiveIdle

CallTradeStatisticsMutant ==
    /\ callee' = "calculate_trade_statistics"
    /\ ret' = calculate_trade_statistics(trades)
    /\ trades' = SortedByExit(trades)
    /\ UNCHANGED <<current_balance, start_balance, projArgs, rngVars, liveVars, mcVars>>

\* sorted() builds a new list: the caller's list is left as it is
CallTradeStatistics ==
    /\ callee' = "calculate_trade_statistics"
    /\ ret' = calculate_trade_statistics(trades)
    /\ UNCHANGED <<statsArgs, projArgs, rngVars, liveVars, mcVars>>

CallPerformanceMetrics ==
    /\ callee' = "calculate_performance_metrics"
    /\ ret' = calculate_performance_metrics(trades, start_balance, current_balance)
    /\ UNCHANGED <<statsArgs, projArgs, rngVars, liveVars, mcVars>>

CallDailyReturns ==
    /\ callee' = "calculate_daily_returns"
    /\ ret' = calculate_daily_returns(trades, current_balance, start_balance)
    /\ UNCHANGED <<statsArgs, projArgs, rngVars, liveVars, mcVars>>

NextStats == CallTradeStatistics \/ CallPerformanceMetrics \/ CallDailyReturns

SpecStats == InitStats /\ [][NextStats]_vars

----------------------------------------------------------------------------
(* Claims about the statistics functions *)

StatsReturned ==
    /\ callee \in {"calculate_trade_statistics", "calculate_performance_metrics"}
    /\ trades # <<>>

WinIndexes == {i \in DOMAIN trades : "pnl" \in DOMAIN trades[i] /\ trades[i].pnl > 0}
LossIndexes == {i \in DOMAIN trades : "pnl" \notin DOMAIN trades[i] \/ trades[i].pnl <= 0}

\* C2: for a non-empty trade list both statistics functions count as wins
\* exactly the trades with pnl > 0 and as losses the trades with pnl <= 0 or
\* no pnl, so win_count + loss_count = total_trades, and
\* calculate_performance_metrics returns win_rate + loss_rate = 100.
C2_WinLossPartition ==
    StatsReturned =>
        /\ IsResult(ret)
        /\ ret.win_count = Cardinality(WinIndexes)
        /\ ret.loss_count = Cardinality(LossIndexes)
        /\ ret.total_trades = Len(trades)
        /\ ret.win_count + ret.loss_count = ret.total_trades
        /\ callee = "calculate_performance_metrics"
              => RAdd(ret.win_rate, ret.loss_rate) = Int2R(100)

C2_Witness ==
    /\ callee = "calculate_performance_metrics"
    /\ Len(trades) = 3
    /\ \E i, j, k \in DOMAIN trades :
          /\ "pnl" \notin DOMAIN trades[i]
          /\ PnlOf(trades[j]) = 0 /\ "pnl" \in DOMAIN trades[j]
          /\ PnlOf(trades[k]) > 0
    /\ ret.win_count = 1 /\ ret.loss_count = 2

\* C3: for a non-empty trade list the profit_factor of
\* calculate_trade_statistics is >= 0 and is the +infinity sentinel if and
\* only if gross_loss = 0 and gross_profit > 0.
C3_ProfitFactorInfIff ==
    (callee = "calculate_trade_statistics" /\ trades # <<>>) =>
        /\ ret.profit_factor.n >= 0
        /\ IsInf(ret.profit_factor) <=> (ret.gross_loss = 0 /\ ret.gross_profit > 0)

\* C4: when gross_profit and gross_loss are both 0, calculate_trade_statistics
\* returns profit_factor = 0, and when avg_win and avg_loss are both 0 it
\* returns risk_reward = 0.
C4_ZeroOverZero ==
    (callee = "calculate_trade_statistics" /\ trades # <<>>) =>
        /\ (ret.gross_profit = 0 /\ ret.gross_loss = 0)
              => ret.profit_factor = Int2R(0)
        /\ (ret.avg_win = Int2R(0) /\ ret.avg_loss = Int2R(0))
              => ret.risk_reward = Int2R(0)

Perms(s) ==
    {[i \in 1..Len(s) |-> s[f[i]]] :
        f \in {g \in [1..Len(s) -> 1..Len(s)] :
                  \A a, b \in 1..Len(s) : a # b => g[a] # g[b]}}

StreakOutputs(r) ==
    <<r.max_win_streak, r.max_loss_streak, r.current_streak, r.current_streak_type>>

\* C9 as stated: the four streak outputs of calculate_trade_statistics are
\* the same for every permutation of the trade list.
C9_StreaksOrderFree ==
    (callee = "calculate_trade_statistics" /\ trades # <<>>) =>
        \A p \in Perms(trades) :
            StreakOutputs(calculate_trade_statistics(p)) = StreakOutputs(ret)

\* trades that share a sort key (equal exit_time, or no exit_time) have the
\* same outcome
TiesAgree(s) ==
    \A i, j \in DOMAIN s : ExitKey(s[i]) = ExitKey(s[j]) => IsWin(s[i]) = IsWin(s[j])

\* C9 amended: for a trade list in which trades with the same exit_time sort
\* key all have the same outcome, the four streak outputs are the same for
\* every permutation of the list.
C9_StreaksOrderFreeNoTies ==
    (callee = "calculate_trade_statistics" /\ trades # <<>> /\ TiesAgree(trades)) =>
        \A p \in Perms(trades) :
            StreakOutputs(calculate_trade_statistics(p)) = StreakOutputs(ret)

C9_Witness ==
    /\ callee = "calculate_trade_statistics"
    /\ Len(trades) = 3
    /\ TiesAgree(trades)
    /\ ExitKey(trades[1]) > ExitKey(trades[2])
    /\ ExitKey(trades[2]) > ExitKey(trades[3])
    /\ IsWin(trades[1]) /\ ~IsWin(trades[2]) /\ ~IsWin(trades[3])
    /\ ret.current_streak = 1 /\ ret.current_streak_type = "True"
    /\ ret.max_loss_streak = 2

\* the outcomes (TRUE for a win) of the trades in exit_time order
SortedOutcomes ==
    LET s == SortedByExit(trades)
    IN [i \in 1..Len(s) |-> "pnl" \in DOMAIN s[i] /\ s[i].pnl > 0]

\* i..j is a run of outcome b in o
IsRun(o, i, j, b) == \A k \in i..j : o[k] = b

\* i..j is a maximal run of o
IsMaximalRun(o, i, j) ==
    /\ i <= j
    /\ IsRun(o, i, j, o[i])
    /\ i > 1 => o[i - 1] # o[i]
    /\ j < Len(o) => o[j + 1] # o[i]

MaximalRuns(o) == {r \in (1..Len(o)) \X (1..Len(o)) : IsMaximalRun(o, r[1], r[2])}

RECURSIVE SumRunLengths(_)
SumRunLengths(R) ==
    IF R = {} THEN 0
    ELSE LET r == CHOOSE x \in R : TRUE
         IN (r[2] - r[1] + 1) + SumRunLengths(R \ {r})

LongestRun(o, b) ==
    LET L == {r[2] - r[1] + 1 : r \in {x \in MaximalRuns(o) : o[x[1]] = b}}
    IN IF L = {} THEN 0 ELSE CHOOSE m \in L : \A k \in L : k <= m

LastRun(o) == CHOOSE r \in MaximalRuns(o) : r[2] = Len(o)

\* C10: for a non-empty trade list split, in exit_time order, into maximal
\* runs of the same outcome (whose lengths sum to total_trades),
\* max_win_streak is the longest win run, max_loss_streak the longest loss
\* run (0 if none), current_streak and its type are the last run's, and
\* current_streak never exceeds the maximum streak of its type.
C10_StreaksAreRuns ==
    (callee = "calculate_trade_statistics" /\ trades # <<>>) =>
        LET o == SortedOutcomes
            last == LastRun(o)
        IN /\ SumRunLengths(MaximalRuns(o)) = ret.total_trades
           /\ ret.max_win_streak = LongestRun(o, TRUE)
           /\ ret.max_loss_streak = LongestRun(o, FALSE)
           /\ ret.current_streak = last[2] - last[1] + 1
           /\ ret.current_streak_type = PyBool(o[Len(o)])
           /\ ret.current_streak_type = "True" => ret.current_streak <= ret.max_win_streak
           /\ ret.current_streak_type = "False" => ret.current_streak <= ret.max_loss_streak

C10_Witness ==
    /\ callee = "calculate_trade_statistics"
    /\ Len(trades) = 3
    /\ ExitKey(trades[1]) > ExitKey(trades[3])
    /\ ret.max_win_streak = 2
    /\ ret.max_loss_streak = 1
    /\ ret.current_streak = 1
    /\ ret.current_streak_type = "False"

\* the keys that both statistics routines report
SharedKeys ==
    {"total_trades", "win_count", "loss_count", "win_rate", "gross_profit",
     "gross_loss", "net_pnl", "profit_factor", "expectancy", "best_trade",
     "worst_trade", "max_win_streak", "max_loss_streak", "current_streak",
     "current_streak_type"}

\* the result of the routine that has not been called, on the same trades
OtherRoutine ==
    IF callee = "calculate_trade_statistics"
    THEN calculate_performance_metrics(trades, start_balance, current_balance)
    ELSE calculate_trade_statistics(trades)

\* C27: for every trade list (with no period filter) the running-maximum
\* routine calculate_trade_statistics of utils.py and the flush-on-type-
\* change routine calculate_performance_metrics of app.py agree on
\* total_trades, win_count, loss_count, win_rate, gross_profit, gross_loss,
\* net_pnl, profit_factor, expectancy, best_trade, worst_trade,
\* max_win_streak, max_loss_streak, current_streak and current_streak_type
\* (both return None for the empty list).
C27_RoutinesAgree ==
    callee \in {"calculate_trade_statistics", "calculate_performance_metrics"} =>
        IF trades = <<>> THEN ret = None /\ OtherRoutine = None
        ELSE \A key \in SharedKeys : ret[key] = OtherRoutine[key]

\* a loss followed by two wins: the longest streak is the one still running
\* when the flush loop ends
C27_Witness ==
    /\ callee = "calculate_performance_metrics"
    /\ Len(trades) = 3
    /\ ret.max_win_streak = 2
    /\ ret.max_loss_streak = 1
    /\ ret.current_streak = 2
    /\ ret.current_streak_type = "True"
    /\ \A key \in SharedKeys : ret[key] = calculate_trade_statistics(trades)[key]

\* C30: for every non-empty trade list the expectancy returned by
\* calculate_trade_statistics is the mean pnl per trade: expectancy *
\* total_trades = net_pnl = gross_profit - gross_loss = the sum of all pnl
\* values.
C30_ExpectancyIsMean ==
    (callee = "calculate_trade_statistics" /\ trades # <<>>) =>
        /\ RMul(ret.expectancy, Int2R(ret.total_trades)) = Int2R(ret.net_pnl)
        /\ ret.net_pnl = ret.gross_profit - ret.gross_loss
        /\ ret.net_pnl = Sum(PnlValues(trades))

\* a scratch trade, a loss and a win
C30_Witness ==
    /\ callee = "calculate_trade_statistics"
    /\ Len(trades) = 3
    /\ ret.win_count = 1
    /\ ret.gross_loss = 1
    /\ ret.loss_count = 2
    /\ ret.expectancy = Frac(1, 3)
    /\ ret.net_pnl = 1

----------------------------------------------------------------------------
(* Claims about calculate_daily_returns *)

DailyReturned == callee = "calculate_daily_returns" /\ IsResult(ret)

\* the trades of the caller's list whose exit_time is an ISO timestamp
ParsedIndexes ==
    {i \in DOMAIN trades :
        /\ "exit_time" \in DOMAIN trades[i]
        /\ trades[i].exit_time \in IsoTimes}

\* the calendar date of an ISO timestamp counted in half days
CalendarDate(e) == e \div 2

ExitDates == {CalendarDate(trades[i].exit_time) : i \in ParsedIndexes}

RECURSIVE PnlOver(_)
PnlOver(I) ==
    IF I = {} THEN 0
    ELSE LET i == CHOOSE j \in I : TRUE
         IN (IF "pnl" \in DOMAIN trades[i] THEN trades[i].pnl ELSE 0) + PnlOver(I \ {i})

PnlOn(d) == PnlOver({i \in ParsedIndexes : CalendarDate(trades[i].exit_time) = d})
PnlBefore(d) == PnlOver({i \in ParsedIndexes : CalendarDate(trades[i].exit_time) < d})

\* the position of date d in the ascending order of the exit dates
RankOf(d) == 1 + Cardinality({e \in ExitDates : e < d})

\* C11: calculate_daily_returns has one entry per distinct calendar date of
\* the trades whose exit_time parses, in ascending date order; the entry of a
\* day is its summed pnl over start_balance plus the pnl of all earlier days
\* when that balance is > 0 and 0 otherwise; trading_days is the number of
\* entries and unparsable trades contribute nothing.
C11_OneEntryPerDate ==
    DailyReturned =>
        /\ Len(ret.daily_returns) = Cardinality(ExitDates)
        /\ ret.trading_days = Len(ret.daily_returns)
        /\ \A d \in ExitDates :
              LET running_balance == start_balance + PnlBefore(d)
              IN ret.daily_returns[RankOf(d)] =
                     IF running_balance > 0 THEN Frac(PnlOn(d), running_balance)
                     ELSE Int2R(0)

C11_Witness ==
    /\ DailyReturned
    /\ Len(trades) = 3
    /\ Cardinality(ParsedIndexes) = 2
    /\ Len(ret.daily_returns) = 2
    /\ start_balance > 0
    /\ ExitKey(trades[1]) > ExitKey(trades[3])
    /\ \E i \in DOMAIN trades : ExitKey(trades[i]) = BadExitTime
    /\ ret.daily_returns[1] # Int2R(0)
    /\ ret.daily_returns[2] # Int2R(0)

\* balance_k = balance_{k-1} * (1 + daily_returns[k]), from start_balance
RECURSIVE Replay(_, _)
Replay(daily_returns, k) ==
    IF k = 0 THEN Int2R(start_balance)
    ELSE RMul(Replay(daily_returns, k - 1), RAdd(Int2R(1), daily_returns[k]))

\* start_balance plus the pnl of the first k days
TrueBalance(k) ==
    start_balance + PnlOver({i \in ParsedIndexes :
                                RankOf(CalendarDate(trades[i].exit_time)) <= k})

Reconstructs ==
    \A k \in 1..Len(ret.daily_returns) :
        Replay(ret.daily_returns, k) = Int2R(TrueBalance(k))

\* C12 as stated: for every trade list and start_balance with a series,
\* replaying the daily returns from start_balance reproduces the running
\* balance at every day.
C12_Reconstruction == DailyReturned => Reconstructs

\* C12: when the running balance at the start of every day (start_balance
\* plus the pnl of all earlier days) is > 0, replaying the daily returns
\* from start_balance reproduces the running balance at every day.
C12_ReconstructionPositive ==
    (DailyReturned /\ \A k \in 0..(Len(ret.daily_returns) - 1) : TrueBalance(k) > 0)
        => Reconstructs

C12_Witness ==
    /\ DailyReturned
    /\ Len(trades) = 3
    /\ Len(ret.daily_returns) = 2
    /\ \A k \in 0..2 : TrueBalance(k) > 0
    /\ \A k \in 1..2 : ret.daily_returns[k] # Int2R(0)
    /\ \E k \in 1..2 : RLt(ret.daily_returns[k], Int2R(0))

AllTradesParse == ParsedIndexes = DOMAIN trades

FirstExitDate == CHOOSE d \in ExitDates : \A e \in ExitDates : d <= e
LastExitDate == CHOOSE d \in ExitDates : \A e \in ExitDates : e <= d
CalendarSpan == IF LastExitDate - FirstExitDate >= 1 THEN LastExitDate - FirstExitDate ELSE 1

\* C13: for trades whose exit_time values all parse, total_days is the number
\* of calendar days from the date of the earliest exit to the date of the
\* latest exit, at least 1, avg_trades_per_day is len(trades) / total_days,
\* and trading_days never exceeds total_days + 1.
C13_CalendarSpan ==
    (DailyReturned /\ AllTradesParse) =>
        /\ ret.total_days = Int2R(CalendarSpan)
        /\ ret.avg_trades_per_day = Frac(Len(trades), CalendarSpan)
        /\ RLe(Int2R(ret.trading_days), RAdd(ret.total_days, Int2R(1)))

----------------------------------------------------------------------------
(* calculate_projections called on its own *)

MaxDays == 4
ProjBalances == {0, 1, 4, 10}
DailyReturns == {Frac(-1, 1), Frac(-1, 2), Int2R(0), Frac(1, 2)}
\* volatilities whose product with 1.96 is 0, 1/2 and 1
Volatilities == {Int2R(0), Frac(25, 98), Frac(25, 49)}

StatsIdle ==
    /\ trades = <<>>
    /\ start_balance = 0

InitProj ==
    /\ current_balance \in ProjBalances
    /\ avg_daily_return \in DailyReturns
    /\ volatility \in Volatilities
    /\ days \in 1..MaxDays
    /\ callee = "none"
    /\ ret = NotCalled
    /\ StatsIdle
    /\ MCIdle
    /\ RngIdle
    /\ LiveIdle

CallProjections ==
    /\ callee' = "calculate_projections"
    /\ ret' = calculate_projections(current_balance, avg_daily_return, volatility, days)
    /\ UNCHANGED <<statsArgs, projArgs, rngVars, liveVars, mcVars>>

NextProj == CallProjections

SpecProj == InitProj /\ [][NextProj]_vars

\* C6: for any current_balance, avg_daily_return, volatility >= 0 and
\* days >= 1, calculate_projections returns lower_95 <= projected <= upper_95
\* (lower_95 taken after the 10% floor).
C6_BandOrdered ==
    callee = "calculate_projections" =>
        /\ RLe(ret.lower_95, ret.projected)
        /\ RLe(ret.projected, ret.upper_95)

\* the 'projected' value of the same call made with another horizon
ProjectedAt(ndays) ==
    calculate_projections(current_balance, avg_daily_return, volatility, ndays).projected

StrictlyMonotone ==
    \A later \in 1..MaxDays :
        later > days =>
            /\ RPos(avg_daily_return) => RLt(ret.projected, ProjectedAt(later))
            /\ RLt(avg_daily_return, Int2R(0)) => RLt(ProjectedAt(later), ret.projected)

\* C15 as stated: for fixed current_balance, volatility and
\* avg_daily_return > 0 'projected' is strictly increasing in days and for
\* every avg_daily_return < 0 strictly decreasing.
C15_Monotone == callee = "calculate_projections" => StrictlyMonotone

\* C15: for current_balance > 0 and fixed volatility, 'projected' is
\* strictly increasing in days when avg_daily_return > 0 and strictly
\* decreasing in days when -1 < avg_daily_return < 0.
C15_MonotonePositive ==
    (/\ callee = "calculate_projections"
     /\ current_balance > 0
     /\ RLt(Int2R(-1), avg_daily_return)) => StrictlyMonotone

C15_Witness ==
    /\ callee = "calculate_projections"
    /\ current_balance = 4
    /\ avg_daily_return = Frac(-1, 2)
    /\ days = 2
    /\ ret.projected = Int2R(1)
    /\ ProjectedAt(3) = Frac(1, 2)

\* (balance / current_balance - 1) * 100
PctOfBalance(balance) ==
    RMul(RSub(RDiv(balance, Int2R(current_balance)), Int2R(1)), Int2R(100))

\* C29: in every result of calculate_projections with current_balance > 0
\* the reported percentages agree with the reported balances: return_pct =
\* (projected / current_balance - 1) * 100, likewise upper_return_pct with
\* upper_95 and lower_return_pct with lower_95, and lower_pnl = lower_95 -
\* current_balance, also when the 10% floor has replaced the computed lower
\* bound.
C29_PercentagesAgree ==
    (callee = "calculate_projections" /\ current_balance > 0) =>
        /\ ret.return_pct = PctOfBalance(ret.projected)
        /\ ret.upper_return_pct = PctOfBalance(ret.upper_95)
        /\ ret.lower_return_pct = PctOfBalance(ret.lower_95)
        /\ ret.lower_pnl = RSub(ret.lower_95, Int2R(current_balance))

----------------------------------------------------------------------------
(* run_monte_carlo_simulation called on its own *)

MaxSims == 2
MaxPathTrades == 2
Histories ==
    {<<>>, <<-3, 1, 1, 1>>, <<1, 1, 1, 1, 1>>, <<-3, 1, 1, 1, 1>>,
     <<-5, -3, 2, 1, 1, 1>>}
MCBalances == {1, 3}

\* numbers of simulations at and beyond the batch size: one full batch, one
\* path more, two full batches, two and one path more.  They are run on
\* the history whose draws all give the same path.
SteadyHistory == <<1, 1, 1, 1, 1>>
BatchEdgeSims == {BatchSize, BatchSize + 1, 2 * BatchSize, 2 * BatchSize + 1}

InitMC ==
    /\ pnl_history \in Histories
    /\ start_balance \in MCBalances
    /\ n_simulations \in (0..MaxSims) \cup
                             (IF pnl_history = SteadyHistory THEN BatchEdgeSims ELSE {})
    /\ n_trades \in 0..MaxPathTrades
    /\ mc_pc = "called"
    /\ batch_start = 0
    /\ batch_left = 0
    /\ simulations = <<>>
    /\ final_balances = <<>>
    /\ trades = <<>>
    /\ current_balance = 0
    /\ callee = "none"
    /\ ret = NotCalled
    /\ ProjIdle
    /\ RngIdle
    /\ LiveIdle

NextMC ==
    \/ MCTooFew
    \/ MCRangeError
    \/ MCStart
    \/ MCBatch
    \/ MCPath
    \/ MCBatchEnd
    \/ MCReturn

SpecMC == InitMC /\ [][NextMC]_vars

MCReturned == mc_pc = "done" /\ IsResult(ret)

\* C5: every recorded path entry after the start and every element of
\* final_balances is >= 0.01, for every pnl_history.
C5_BalancesClamped ==
    MCReturned =>
        /\ \A k \in DOMAIN ret.simulations :
              \A i \in 2..Len(ret.simulations[k]) :
                  ret.simulations[k][i] >= MinPathEntry
        /\ \A k \in DOMAIN ret.final_balances :
              ret.final_balances[k] >= MinPathEntry

\* the values that n draws from pnl_history can take
DrawsFrom(history, n) == [1..n -> {history[i] : i \in DOMAIN history}]

\* the running balance after the first i of the drawn values
BalanceAfter(drawn, i) == start_balance + Sum(SubSeq(drawn, 1, i))

\* C23: for pnl_history of at least 5 values, n_simulations >= 1 and
\* n_trades >= 0, run_monte_carlo_simulation returns exactly n_simulations
\* paths, whatever n_simulations is relative to the batch size of 100; each
\* path has n_trades + 1 entries and starts at starting_balance whatever the
\* earlier paths were, and each step adds one value drawn from pnl_history
\* to the running balance, which the path records no lower than 0.01.
C23_AllPathsReturned ==
    (MCReturned /\ n_simulations >= 1) =>
        /\ Len(ret.simulations) = n_simulations
        /\ Len(ret.final_balances) = n_simulations
        /\ \A k \in DOMAIN ret.simulations :
              LET path == ret.simulations[k]
              IN /\ Len(path) = n_trades + 1
                 /\ path[1] = start_balance
                 /\ \E drawn \in DrawsFrom(pnl_history, n_trades) :
                       /\ \A i \in 1..n_trades :
                             path[i + 1] = Max(BalanceAfter(drawn, i), MinPathEntry)
                       /\ ret.final_balances[k] = BalanceAfter(drawn, n_trades)

\* two full batches and one more path, of one trade each
C23_Witness ==
    /\ MCReturned
    /\ n_simulations = 2 * BatchSize + 1
    /\ n_trades >= 1
    /\ Len(ret.simulations) = n_simulations
    /\ ret.simulations[n_simulations] = <<start_balance, start_balance + 1>>

\* C28: for every simulated path i returned by run_monte_carlo_simulation,
\* final_balances[i] equals the last recorded entry of that path,
\* simulations[i][n_trades].
C28_FinalIsLastEntry ==
    MCReturned =>
        \A i \in DOMAIN ret.simulations :
            ret.final_balances[i] = ret.simulations[i][n_trades + 1]

----------------------------------------------------------------------------
(* get_comprehensive_projections called by the dashboard *)

MaxVaried == 2

\* the trades that vary: a loss, a scratch trade and a win on three days, a
\* trade without exit_time and one whose exit_time does not parse
VariedSet ==
    {[pnl |-> -1, exit_time |-> 3], [pnl |-> 0, exit_time |-> 4],
     [pnl |-> 2, exit_time |-> 6], [pnl |-> 2],
     [pnl |-> -1, exit_time |-> BadExitTime]}

VariedLists == UNION {[1..n -> VariedSet] : n \in 0..MaxVaried}

\* k ledger rows that carry the list across the 10-trade gate: wins and
\* losses on two days, or rows whose exit_time does not parse
Ledger(k, kind) ==
    [i \in 1..k |->
        [pnl |-> IF i % 3 = 0 THEN -1 ELSE 2,
         exit_time |-> IF kind = "bad" THEN BadExitTime
                       ELSE IF i <= 4 THEN 3 ELSE 4]]

LedgerLengths ==
    {0} \cup ((MinProjectionTrades - MaxVaried)..MinProjectionTrades)

CompTradeLists ==
    {v \o Ledger(k, kind) : v \in VariedLists, k \in LedgerLengths, kind \in {"iso", "bad"}}

MaxCalls == 2
Seeds == {1}

InitComp ==
    /\ trades \in CompTradeLists
    /\ start_balance \in StartBalances
    /\ current_balance = start_balance + Sum(PnlValues(trades))
    /\ callee = "none"
    /\ ret = NotCalled
    /\ ProjIdle
    /\ MCIdle
    /\ RngIdle
    /\ LiveIdle

\* the call draws from numpy's global stream and leaves it advanced; the
\* dashboard keeps the result
CallComprehensiveProjections ==
    /\ Len(call_log) < MaxCalls
    /\ callee' = "get_comprehensive_projections"
    /\ ret' = get_comprehensive_projections(trades, current_balance, start_balance)
    /\ rng' = StreamAfterProjections(trades, current_balance, start_balance)
    /\ call_log' = Append(call_log, [stream |-> rng, result |-> ret'])
    /\ UNCHANGED <<statsArgs, projArgs, liveVars, mcVars>>

\* np.random.seed(seed) by the caller
SeedRandom ==
    /\ \E seed \in Seeds : rng' = [seed |-> seed, drawn |-> 0]
    /\ UNCHANGED <<statsArgs, projArgs, liveVars, mcVars, callee, ret, call_log>>

NextComp == CallComprehensiveProjections \/ SeedRandom

SpecComp == InitComp /\ [][NextComp]_vars

AllParse(ts) == \A i \in DOMAIN ts : Parses(ExitKey(ts[i]))

\* C1: get_comprehensive_projections returns None for fewer than 10 trades,
\* and for 10 or more trades whose exit_time values all parse a result with
\* the keys daily_stats, trade_stats, math_projections and monte_carlo and a
\* Monte Carlo summary for each of 7d, 30d and 90d.
C1_TenTradeGate ==
    callee = "get_comprehensive_projections" =>
        /\ Len(trades) < 10 => ret = None
        /\ (Len(trades) >= 10 /\ AllParse(trades)) =>
              /\ IsResult(ret)
              /\ {"daily_stats", "trade_stats", "math_projections", "monte_carlo"}
                     \subseteq DOMAIN ret
              /\ \A p \in {"7d", "30d", "90d"} :
                     /\ p \in DOMAIN ret.monte_carlo
                     /\ DOMAIN ret.monte_carlo[p] = MCSummaryKeys

C1_Witness ==
    /\ callee = "get_comprehensive_projections"
    /\ Len(trades) = 10
    /\ AllParse(trades)
    /\ IsResult(ret)
    /\ ret.trade_stats.total_trades = 10

\* C7: the pnl sequence given to the moving-average, trend and volatility
\* functions is in ascending exit_time order, so trend_analysis,
\* volatility_metrics and moving_averages are those of the list sorted by
\* exit_time, whatever the order of the input.
C7_PnlChronological ==
    (callee = "get_comprehensive_projections" /\ IsResult(ret) /\ AllParse(trades)) =>
        LET chrono == PnlValues(SortedByExit(trades))
        IN /\ ret.trend_analysis = calculate_linear_regression_trend(chrono)
           /\ ret.volatility_metrics = calculate_volatility_metrics(chrono)
           /\ ret.moving_averages = calculate_moving_averages(chrono)

\* C8: when trend_analysis is non-empty each of the 7d, 30d and 90d
\* projections carries trend_adjusted = projected + daily_trend_pnl * days *
\* min(current_trend_strength, 0.8) and trend_confidence =
\* current_trend_strength next to the untouched projected value; when it is
\* empty neither key is present.
C8_TrendBlended ==
    (callee = "get_comprehensive_projections" /\ IsResult(ret)) =>
        \A p \in Periods :
            LET proj == ret.math_projections[p]
                t == ret.trend_analysis
            IN /\ proj.projected = ProjectionCall(HorizonOf(p).days).projected
               /\ IF t = EmptyDict
                  THEN {"trend_adjusted", "trend_confidence"} \cap DOMAIN proj = {}
                  ELSE /\ {"trend_adjusted", "trend_confidence"} \subseteq DOMAIN proj
                       /\ proj.trend_confidence = t.current_trend_strength
                       /\ proj.trend_adjusted =
                              [base |-> proj.projected,
                               plus |-> RMul(RMul(t.daily_trend_pnl,
                                                  Int2R(HorizonOf(p).days)),
                                             TrendWeight(t.current_trend_strength))]

----------------------------------------------------------------------------
(* The analytics components called one after the other on the pnl values  *)
(* of one trade list, as get_comprehensive_projections hands them over    *)

MaxPartTrades == 5
MaxPartSims == 1
PartPathTrades == {0, 1}

PartTradeSet ==
    {[pnl |-> 2, exit_time |-> 3], [pnl |-> -1, exit_time |-> 6],
     [pnl |-> -3, exit_time |-> BadExitTime]}

PartTradeLists == UNION {[1..n -> PartTradeSet] : n \in 0..MaxPartTrades}

InitParts ==
    /\ trades \in PartTradeLists
    /\ start_balance = 3
    /\ current_balance = start_balance + Sum(PnlValues(trades))
    /\ pnl_history = PnlValues(trades)
    /\ n_simulations = 0
    /\ n_trades = 0
    /\ mc_pc = "idle"
    /\ batch_start = 0
    /\ batch_left = 0
    /\ simulations = <<>>
    /\ final_balances = <<>>
    /\ callee = "none"
    /\ ret = NotCalled
    /\ ProjIdle
    /\ RngIdle
    /\ LiveIdle

\* the interpreter runs one function at a time
NotInMonteCarlo == mc_pc \in {"idle", "done"}

CallPartTradeStatistics == NotInMonteCarlo /\ CallTradeStatistics

CallPartDailyReturns == NotInMonteCarlo /\ CallDailyReturns

CallVolatilityMetrics ==
    /\ NotInMonteCarlo
    /\ callee' = "calculate_volatility_metrics"
    /\ ret' = calculate_volatility_metrics(pnl_history)
    /\ UNCHANGED <<statsArgs, projArgs, rngVars, liveVars, mcVars>>

CallLinearRegressionTrend ==
    /\ NotInMonteCarlo
    /\ callee' = "calculate_linear_regression_trend"
    /\ ret' = calculate_linear_regression_trend(pnl_history)
    /\ UNCHANGED <<statsArgs, projArgs, rngVars, liveVars, mcVars>>

\* run_monte_carlo_simulation(pnl_history, starting_balance, n_simulations,
\* n_trades) is entered
CallMonteCarlo ==
    /\ NotInMonteCarlo
    /\ n_simulations' \in 1..MaxPartSims
    /\ n_trades' \in PartPathTrades
    /\ mc_pc' = "called"
    /\ callee' = "run_monte_carlo_simulation"
    /\ ret' = NotCalled
    /\ batch_start' = 0
    /\ batch_left' = 0
    /\ simulations' = <<>>
    /\ final_balances' = <<>>
    /\ UNCHANGED <<statsArgs, projArgs, rngVars, liveVars, pnl_history>>

NextParts ==
    \/ CallPartTradeStatistics
    \/ CallPartDailyReturns
    \/ CallVolatilityMetrics
    \/ CallLinearRegressionTrend
    \/ CallMonteCarlo
    \/ MCTooFew
    \/ MCStart
    \/ MCBatch
    \/ MCPath
    \/ MCBatchEnd
    \/ MCReturn

SpecParts == InitParts /\ [][NextParts]_vars

IsNone(x) == ~IsResult(x) /\ x.tag = "None"
IsEmptyDict(x) == ~IsResult(x) /\ x.tag = "{}"
IsNonePair(x) == ~IsResult(x) /\ x.tag = "None, None"

Returned(f) ==
    /\ callee = f
    /\ ~IsResult(ret) => ret.tag # "not called"

\* C14: each component returns its insufficient-data sentinel exactly when
\* its input is below its minimum size and a result otherwise:
\* calculate_trade_statistics None for an empty list, calculate_daily_returns
\* None for an empty list or no parsable exit_time,
\* calculate_volatility_metrics {} under 2 values,
\* calculate_linear_regression_trend {} under 3 values and
\* run_monte_carlo_simulation (None, None) under 5 values.
C14_Sentinels ==
    /\ Returned("calculate_trade_statistics") =>
          /\ IsNone(ret) <=> trades = <<>>
          /\ ~IsNone(ret) => IsResult(ret)
    /\ Returned("calculate_daily_returns") =>
          /\ IsNone(ret) <=> (trades = <<>> \/ ParsedIndexes = {})
          /\ ~IsNone(ret) => IsResult(ret)
    /\ Returned("calculate_volatility_metrics") =>
          /\ IsEmptyDict(ret) <=> Len(pnl_history) < 2
          /\ ~IsEmptyDict(ret) => IsResult(ret)
    /\ Returned("calculate_linear_regression_trend") =>
          /\ IsEmptyDict(ret) <=> Len(pnl_history) < 3
          /\ ~IsEmptyDict(ret) => IsResult(ret)
    /\ Returned("run_monte_carlo_simulation") =>
          /\ IsNonePair(ret) <=> Len(pnl_history) < 5
          /\ ~IsNonePair(ret) => IsResult(ret)

C14_Witness ==
    /\ Returned("run_monte_carlo_simulation")
    /\ Len(pnl_history) = 5
    /\ IsResult(ret)
    /\ Len(ret.final_balances) = n_simulations
    /\ ParsedIndexes = {}

\* the sum of the first k pnl values in the given order
RECURSIVE CumAt(_)
CumAt(k) == IF k = 0 THEN 0 ELSE CumAt(k - 1) + pnl_history[k]

\* C18: for at least 2 values max_drawdown is the maximum over positions
\* i <= j of cum_i - cum_j (the peak starts at the first cumulative value),
\* it is >= 0, and it is 0 exactly when the cumulative sums never fall below
\* an earlier cumulative sum.
C18_MaxDrawdown ==
    (Returned("calculate_volatility_metrics") /\ Len(pnl_history) >= 2) =>
        LET n == Len(pnl_history)
            later == {d \in {<<i, j>> : i \in 1..n, j \in 1..n} : d[1] <= d[2]}
            falls == {CumAt(d[1]) - CumAt(d[2]) : d \in later}
        IN /\ ret.max_drawdown \in falls
           /\ \A f \in falls : f <= ret.max_drawdown
           /\ ret.max_drawdown >= 0
           /\ ret.max_drawdown = 0 <=>
                  \A i, j \in 1..n : i < j => CumAt(j) >= CumAt(i)

C18_Witness ==
    /\ Returned("calculate_volatility_metrics")
    /\ Len(pnl_history) = 4
    /\ CumAt(1) < 0
    /\ ret.max_drawdown = 1
    /\ \E k \in 1..4 : CumAt(k) > 0

----------------------------------------------------------------------------
(* Claims about repeated calls of get_comprehensive_projections *)

\* a result without its monte_carlo section
OutsideMonteCarlo(result) ==
    IF IsResult(result)
    THEN [k \in DOMAIN result \ {"monte_carlo"} |-> result[k]]
    ELSE result

SimulationsDeclared(text) ==
    IF text = "5,000 bootstrapped simulations" THEN 5000 ELSE 0

\* C26: each horizon's Monte Carlo summary returned by
\* get_comprehensive_projections is computed from 5,000 bootstrapped
\* simulation paths, the number that the result's methods['monte_carlo']
\* description declares.
C26_DeclaredSimulations ==
    (callee = "get_comprehensive_projections" /\ IsResult(ret)) =>
        /\ SimulationsDeclared(ret.methods.monte_carlo) = 5000
        /\ \A p \in Periods :
              IsResult(ret.monte_carlo[p]) =>
                  \A k \in MCSummaryKeys :
                      ret.monte_carlo[p][k].paths =
                          SimulationsDeclared(ret.methods.monte_carlo)

----------------------------------------------------------------------------
(* The dashboard calling the four entry points on one trade list *)

NextDash ==
    \/ CallTradeStatistics
    \/ CallDailyReturns
    \/ CallPerformanceMetrics
    \/ CallComprehensiveProjections

SpecDash == InitComp /\ [][NextDash]_vars

\* C17: calls of calculate_trade_statistics, calculate_daily_returns,
\* calculate_performance_metrics and get_comprehensive_projections leave the
\* caller's trade list, its length, its order and every field of every
\* record, unchanged.
C17_TradesUntouched == [][trades' = trades]_vars

C17_Witness ==
    /\ Len(call_log) = 2
    /\ callee = "calculate_performance_metrics"
    /\ IsResult(call_log[1].result)
    /\ \E i \in 1..(Len(trades) - 1) : ExitKey(trades[i]) > ExitKey(trades[i + 1])

----------------------------------------------------------------------------
(* live_positions.py: generate_position_alerts.  Prices are whole units,   *)
(* percentages exact quotients; an alert is its severity, type and         *)
(* action_required (symbol, message, details and timestamp are left out).  *)
(* A position's 'time' is an ISO timestamp counted in seconds.             *)

\* ALERT_THRESHOLDS in the order the dict lists its items
ALERT_THRESHOLDS ==
    <<[name |-> "moderate", pct |-> 2], [name |-> "significant", pct |-> 5],
      [name |-> "critical", pct |-> 10], [name |-> "extreme", pct |-> 15]>>

\* severity.upper()
Upper(name) ==
    CASE name = "moderate" -> "MODERATE"
      [] name = "significant" -> "SIGNIFICANT"
      [] name = "critical" -> "CRITICAL"
      [] name = "extreme" -> "EXTREME"

RAbs(x) == Frac(Abs(x.n), x.d)

\* "for threshold_name, threshold_pct in ALERT_THRESHOLDS.items()": the
\* first item whose threshold |pnl_pct| reaches appends an alert and breaks
RECURSIVE ThresholdLoop(_, _)
ThresholdLoop(pnl_pct, i) ==
    IF i > Len(ALERT_THRESHOLDS) THEN <<>>
    ELSE IF RLe(Int2R(ALERT_THRESHOLDS[i].pct), RAbs(pnl_pct))
    THEN <<[severity |-> Upper(ALERT_THRESHOLDS[i].name),
            type |-> "PRICE_MOVEMENT",
            action_required |-> ALERT_THRESHOLDS[i].name \in {"critical", "extreme"}]>>
    ELSE ThresholdLoop(pnl_pct, i + 1)

StopProximityPct == 2
TargetProximityPct == 3
HighVolatilityPct == 15
LongHeldSeconds == 604800

generate_position_alerts(pos, price_data, clock) ==
    LET current_price == Get(price_data, "price", 0)
        entry_price == Get(pos, "entry", 0)
        stop_price == Get(pos, "stop", 0)
        target_price == Get(pos, "target", 0)
    IN
    IF entry_price = 0 \/ current_price = 0 THEN <<>>
    ELSE
    LET pnl_pct == Frac((current_price - entry_price) * 100, entry_price)
        stop_distance_pct == RAbs(Frac((current_price - stop_price) * 100, current_price))
        target_distance_pct == RAbs(Frac((target_price - current_price) * 100, current_price))
        stop_alerts ==
            IF stop_price > 0 /\ RLe(stop_distance_pct, Int2R(StopProximityPct))
            THEN <<[severity |-> "CRITICAL", type |-> "STOP_PROXIMITY",
                    action_required |-> TRUE]>>
            ELSE <<>>
        target_alerts ==
            IF target_price > 0 /\ RLe(target_distance_pct, Int2R(TargetProximityPct))
            THEN <<[severity |-> "MODERATE", type |-> "TARGET_PROXIMITY",
                    action_required |-> FALSE]>>
            ELSE <<>>
        volatility_alerts ==
            IF /\ "volume_24h" \in DOMAIN price_data
               /\ price_data.volume_24h > 0
               /\ Abs(Get(price_data, "change_24h", 0)) > HighVolatilityPct
            THEN <<[severity |-> "MODERATE", type |-> "HIGH_VOLATILITY",
                    action_required |-> FALSE]>>
            ELSE <<>>
        \* hours_held > 168; a missing 'time' does not parse and is passed over
        age_alerts ==
            IF "time" \in DOMAIN pos /\ clock - pos.time > LongHeldSeconds
            THEN <<[severity |-> "MODERATE", type |-> "POSITION_AGE",
                    action_required |-> FALSE]>>
            ELSE <<>>
    IN ThresholdLoop(pnl_pct, 1) \o stop_alerts \o target_alerts
           \o volatility_alerts \o age_alerts

----------------------------------------------------------------------------
(* generate_position_alerts called on its own *)

\* the dicts whose keys are some of the fields and whose values are drawn
\* from the field's set
DictsOver(fields) ==
    UNION {{f \in [K -> UNION {fields[k] : k \in K}] : \A k \in K : f[k] \in fields[k]} :
              K \in SUBSET DOMAIN fields}

Positions ==
    DictsOver([entry |-> {0, 50, 100}, stop |-> {97}, target |-> {110},
               time |-> {0, 600000}])

PriceData ==
    DictsOver([price |-> {0, 51, 84, 98, 101, 105, 110, 115},
               volume_24h |-> {0, 1000}, change_24h |-> {-20, 5}])

AlertClock == 700000

InitAlerts ==
    /\ position \in Positions
    /\ current_price_data \in PriceData
    /\ now = AlertClock
    /\ PRICE_CACHE = EmptyCache
    /\ PRICE_CACHE_TIMESTAMP = None
    /\ portfolio_value = 0
    /\ positions_data = EmptyDict
    /\ symbols = {}
    /\ contacted = {}
    /\ completed = <<>>
    /\ callee = "none"
    /\ ret = NotCalled
    /\ StatsIdle
    /\ current_balance = 0
    /\ ProjIdle
    /\ MCIdle
    /\ RngIdle

CallGeneratePositionAlerts ==
    /\ callee' = "generate_position_alerts"
    /\ ret' = generate_position_alerts(position, current_price_data, now)
    /\ UNCHANGED <<statsArgs, projArgs, rngVars, liveVars, mcVars>>

NextAlerts == CallGeneratePositionAlerts

SpecAlerts == InitAlerts /\ [][NextAlerts]_vars

PriceMovementAlerts == SelectSeq(ret, LAMBDA a : a.type = "PRICE_MOVEMENT")

\* the thresholds that |pnl_pct| reaches, for prices that are not 0
ReachedThresholds ==
    LET pnl_pct == Frac((current_price_data.price - position.entry) * 100, position.entry)
    IN {i \in DOMAIN ALERT_THRESHOLDS : RLe(Int2R(ALERT_THRESHOLDS[i].pct), RAbs(pnl_pct))}

\* C19: generate_position_alerts emits at most one PRICE_MOVEMENT alert, of
\* the highest threshold of ALERT_THRESHOLDS that |pnl_pct| reaches, with
\* action_required exactly for critical and extreme; none when |pnl_pct| is
\* under 2%, and no alert at all when the entry or the current price is 0.
C19_HighestThreshold ==
    callee = "generate_position_alerts" =>
        IF Get(position, "entry", 0) = 0 \/ Get(current_price_data, "price", 0) = 0
        THEN ret = <<>>
        ELSE /\ Len(PriceMovementAlerts) <= 1
             /\ ReachedThresholds = {} => PriceMovementAlerts = <<>>
             /\ ReachedThresholds # {} =>
                   LET top == CHOOSE i \in ReachedThresholds :
                                  \A j \in ReachedThresholds : j <= i
                       name == ALERT_THRESHOLDS[top].name
                   IN /\ Len(PriceMovementAlerts) = 1
                      /\ PriceMovementAlerts[1].severity = Upper(name)
                      /\ PriceMovementAlerts[1].action_required
                             <=> name \in {"critical", "extreme"}

----------------------------------------------------------------------------
(* live_positions.py: calculate_enhanced_position_metrics.  The colours,   *)
(* the data source and the data timestamp are left out of the dict.  A     *)
(* 'time' that is not an ISO timestamp is the number UnparsableTime; a     *)
(* formatted time_str is the record of the numbers it prints.              *)

UnparsableTime == -1
SecondsPerHour == 3600
SecondsPerDay == 86400
HoursPerYear == 8760

\* an exception that leaves the function
UnboundLocalError == [tag |-> "UnboundLocalError"]

\* whether datetime.fromisoformat(entry_time_str.replace('Z', '')) returns;
\* the '' of a missing 'time' does not parse
TimeParses(pos) == "time" \in DOMAIN pos /\ pos.time # UnparsableTime

RWeighted(x, tenths) == RMul(x, Frac(tenths, 10))

\* the body of the try block for a position whose 'time' parses
TimeMetrics(pos, unrealized_pnl_pct, clock) ==
    LET elapsed == clock - pos.time
        hours_held == Frac(elapsed, SecondsPerHour)
        days_held == elapsed \div SecondsPerDay
        seconds == elapsed % SecondsPerDay
    IN [hours_held |-> hours_held,
        days_held |-> days_held,
        annualized_return |->
            IF RPos(hours_held)
            THEN RMul(RDiv(unrealized_pnl_pct, hours_held), Int2R(HoursPerYear))
            ELSE Int2R(0),
        hourly_return |->
            IF RPos(hours_held) THEN RDiv(unrealized_pnl_pct, hours_held) ELSE Int2R(0),
        time_str |->
            IF days_held > 0
            THEN [d |-> days_held, h |-> seconds \div SecondsPerHour,
                  m |-> (seconds \div 60) % 60]
            ELSE IF RLe(Int2R(1), hours_held)
            THEN [h_tenths |-> (elapsed * 10 + SecondsPerHour \div 2) \div SecondsPerHour,
                  m |-> (seconds \div 60) % 60]
            ELSE [m |-> seconds \div 60, s |-> seconds % 60]]

\* the except clause: time_str, hours_held, annualized_return and
\* hourly_return are assigned, days_held is not
ExceptMetrics ==
    [time_str |-> [text |-> "N/A"], hours_held |-> Int2R(0),
     annualized_return |-> Int2R(0), hourly_return |-> Int2R(0)]

RiskLevel(combined_risk_score, position_size_pct) ==
    IF RLt(Int2R(25), combined_risk_score) \/ RLt(Int2R(25), position_size_pct)
    THEN "EXTREME"
    ELSE IF RLt(Int2R(15), combined_risk_score) \/ RLt(Int2R(15), position_size_pct)
    THEN "HIGH"
    ELSE IF RLt(Int2R(8), combined_risk_score) \/ RLt(Int2R(8), position_size_pct)
    THEN "MEDIUM"
    ELSE "LOW"

Momentum(momentum_score) ==
    IF RLt(Frac(10, 100), momentum_score) THEN "EXTREME"
    ELSE IF RLt(Frac(5, 100), momentum_score) THEN "HIGH"
    ELSE IF RLt(Frac(2, 100), momentum_score) THEN "MEDIUM"
    ELSE "LOW"

PerformanceGrade(unrealized_pnl_pct) ==
    IF RLt(Int2R(10), unrealized_pnl_pct) THEN "A+"
    ELSE IF RLt(Int2R(5), unrealized_pnl_pct) THEN "A"
    ELSE IF RLt(Int2R(0), unrealized_pnl_pct) THEN "B"
    ELSE IF RLt(Int2R(-3), unrealized_pnl_pct) THEN "C"
    ELSE IF RLt(Int2R(-8), unrealized_pnl_pct) THEN "D"
    ELSE "F"

calculate_enhanced_position_metrics(pos, price_data, pv, clock) ==
    LET current_price == Get(price_data, "price", 0)
        entry_price == Get(pos, "entry", 0)
        amount == Get(pos, "amount", 0)
        stop_price == Get(pos, "stop", 0)
        target_price == Get(pos, "target", 0)
    IN
    IF entry_price = 0 \/ current_price = 0 THEN None
    ELSE
    LET position_value == current_price * amount
        entry_value == entry_price * amount
        unrealized_pnl == (current_price - entry_price) * amount
        unrealized_pnl_pct == Frac((current_price - entry_price) * 100, entry_price)
        position_size_pct == IF pv > 0 THEN Frac(position_value * 100, pv) ELSE Int2R(0)
        risk_reward_ratio ==
            IF stop_price > 0 /\ target_price > 0 /\ entry_price # stop_price
            THEN RAbs(Frac(target_price - entry_price, entry_price - stop_price))
            ELSE Int2R(0)
        price_change_from_entry == Frac(current_price - entry_price, entry_price)
        change_24h == Frac(Get(price_data, "change_24h", 0), 100)
        momentum_score == RAdd(RWeighted(RAbs(price_change_from_entry), 6),
                               RWeighted(RAbs(change_24h), 4))
        basics ==
            [position_value |-> position_value,
             entry_value |-> entry_value,
             unrealized_pnl |-> unrealized_pnl,
             unrealized_pnl_pct |-> unrealized_pnl_pct,
             position_size_pct |-> position_size_pct,
             dist_to_stop_pct |->
                 IF stop_price > 0
                 THEN Frac((current_price - stop_price) * 100, current_price)
                 ELSE Int2R(0),
             stop_loss_risk |->
                 IF stop_price > 0 THEN Abs((entry_price - stop_price) * amount) ELSE 0,
             risk_reward_ratio |-> risk_reward_ratio,
             dist_to_target_pct |->
                 IF target_price > 0
                 THEN Frac((target_price - current_price) * 100, current_price)
                 ELSE Int2R(0),
             target_profit_potential |->
                 IF target_price > 0 THEN (target_price - entry_price) * amount ELSE 0,
             break_even_price |-> entry_price,
             break_even_distance |->
                 RAbs(Frac((current_price - entry_price) * 100, current_price)),
             momentum |-> Momentum(momentum_score),
             momentum_score |-> momentum_score,
             performance_grade |-> PerformanceGrade(unrealized_pnl_pct),
             capital_efficiency |->
                 IF entry_value > 0 THEN Frac(Abs(unrealized_pnl) * 100, entry_value)
                 ELSE Int2R(0),
             current_price |-> current_price,
             change_24h_pct |-> Get(price_data, "change_24h", 0),
             volume_24h |-> Get(price_data, "volume_24h", 0)]
        timed == IF TimeParses(pos) THEN TimeMetrics(pos, unrealized_pnl_pct, clock)
                 ELSE ExceptMetrics
        combined_risk_score ==
            RAdd(RAdd(RWeighted(position_size_pct, 4),
                      RWeighted(RAbs(unrealized_pnl_pct), 3)),
                 RWeighted(RDiv(timed.hours_held, Int2R(24)), 3))
        scored ==
            [combined_risk_score |-> combined_risk_score,
             risk_level |-> RiskLevel(combined_risk_score, position_size_pct),
             profit_per_hour |->
                 RDiv(Int2R(unrealized_pnl), RMax(timed.hours_held, Frac(1, 10)))]
    IN
    \* 'days_held': days_held in the returned dict reads a local that only
    \* the try block assigns
    IF "days_held" \notin DOMAIN timed THEN UnboundLocalError
    ELSE basics @@ timed @@ scored

----------------------------------------------------------------------------
(* calculate_enhanced_position_metrics called on its own *)

MetricPositions ==
    DictsOver([entry |-> {0, 100}, amount |-> {2}, stop |-> {0, 97}, target |-> {110},
               time |-> {0, 82800, 89100, UnparsableTime}])

MetricPriceData == DictsOver([price |-> {0, 90, 110}, change_24h |-> {-20, 5}])

PortfolioValues == {0, 1000}

MetricsClock == 90000

InitMetrics ==
    /\ position \in MetricPositions
    /\ current_price_data \in MetricPriceData
    /\ portfolio_value \in PortfolioValues
    /\ now = MetricsClock
    /\ positions_data = EmptyDict
    /\ PRICE_CACHE = EmptyCache
    /\ PRICE_CACHE_TIMESTAMP = None
    /\ symbols = {}
    /\ contacted = {}
    /\ completed = <<>>
    /\ callee = "none"
    /\ ret = NotCalled
    /\ StatsIdle
    /\ current_balance = 0
    /\ ProjIdle
    /\ MCIdle
    /\ RngIdle

CallEnhancedPositionMetrics ==
    /\ callee' = "calculate_enhanced_position_metrics"
    /\ ret' = calculate_enhanced_position_metrics(position, current_price_data,
                                                  portfolio_value, now)
    /\ UNCHANGED <<statsArgs, projArgs, rngVars, liveVars, mcVars>>

NextMetrics == CallEnhancedPositionMetrics

SpecMetrics == InitMetrics /\ [][NextMetrics]_vars

\* C24: calculate_enhanced_position_metrics returns None if and only if the
\* entry price or the current price is 0; for every other position it
\* returns a metrics dict without raising, and when the position's 'time'
\* string is missing or unparsable that dict has time_str 'N/A', hours_held
\* 0, annualized_return 0 and hourly_return 0.
C24_MetricsOrNone ==
    callee = "calculate_enhanced_position_metrics" =>
        IF Get(position, "entry", 0) = 0 \/ Get(current_price_data, "price", 0) = 0
        THEN ret = None
        ELSE /\ IsResult(ret)
             /\ ~TimeParses(position) =>
                   /\ ret.time_str = [text |-> "N/A"]
                   /\ ret.hours_held = Int2R(0)
                   /\ ret.annualized_return = Int2R(0)
                   /\ ret.hourly_return = Int2R(0)

----------------------------------------------------------------------------
(* position_analytics.py: calculate_portfolio_risk_metrics.  positions_data *)
(* has at most two symbols here, for which np.std has an exact value.       *)

ZeroDivisionError == [tag |-> "ZeroDivisionError"]

\* any(c in s for c in ['BTC', 'ETH', 'SOL', 'DOGE', 'ADA']), on the symbols
\* of the model
IsCrypto(symbol) == symbol \in {"BTC/USDT", "ETH/USDT"}

RECURSIVE SumOver(_, _)
SumOver(f, keys) ==
    IF keys = {} THEN 0
    ELSE LET k == CHOOSE x \in keys : TRUE
         IN f[k] + SumOver(f, keys \ {k})

\* np.std of two values (the population deviation): half their distance
PopulationStd(values) ==
    LET a == CHOOSE x \in values : TRUE
        b == CHOOSE x \in values : values = {a, x}
    IN Frac(Abs(a - b), 2)

\* Python's min(a, b) on quotients: b only when b < a
PyMin(a, b) == IF RLt(b, a) THEN b ELSE a

\* abs((entry_price - stop_price) * amount) for a position with a stop
StopLossOf(pos) ==
    IF Get(pos, "stop", 0) > 0 /\ Get(pos, "entry", 0) > 0
    THEN Abs((Get(pos, "entry", 0) - Get(pos, "stop", 0)) * Get(pos, "amount", 0))
    ELSE 0

calculate_portfolio_risk_metrics(pdata, pv) ==
    IF DOMAIN pdata = {}
    THEN [total_exposure |-> Int2R(0), concentration_risk |-> Int2R(0),
          var_95 |-> Int2R(0), max_drawdown_risk |-> 0, correlation_risk |-> "LOW",
          leverage_ratio |-> Int2R(0), risk_score |-> Int2R(0)]
    ELSE
    LET keys == DOMAIN pdata
        total_position_value == SumOver([s \in keys |-> pdata[s].metrics.position_value], keys)
        position_sizes == {pdata[s].metrics.position_size_pct : s \in keys}
        unrealized_pnls == [s \in keys |-> pdata[s].metrics.unrealized_pnl]
        pnl_set == {unrealized_pnls[s] : s \in keys}
        concentration_risk == CHOOSE x \in position_sizes : \A y \in position_sizes : y <= x
        total_exposure == IF pv > 0 THEN Frac(total_position_value * 100, pv) ELSE Int2R(0)
        \* np.std(...) if len(unrealized_pnls) > 1 else abs(max(unrealized_pnls))
        pnl_volatility ==
            IF Cardinality(keys) > 1
            THEN (IF Cardinality(pnl_set) = 1 THEN Int2R(0) ELSE PopulationStd(pnl_set))
            ELSE Int2R(Abs(CHOOSE x \in pnl_set : TRUE))
        var_95 == RMul(pnl_volatility, Frac(165, 100))
        max_drawdown_risk == SumOver([s \in keys |-> StopLossOf(pdata[s].position)], keys)
        crypto_symbols == {s \in keys : IsCrypto(s)}
        correlation_risk ==
            IF Cardinality(crypto_symbols) >= 3 THEN "HIGH"
            ELSE IF Cardinality(crypto_symbols) >= 2 THEN "MEDIUM" ELSE "LOW"
        weighted == RAdd(RWeighted(Int2R(concentration_risk), 3), RWeighted(total_exposure, 3))
        result(risk_score) ==
            [total_exposure |-> total_exposure,
             concentration_risk |-> Int2R(concentration_risk),
             var_95 |-> var_95,
             max_drawdown_risk |-> max_drawdown_risk,
             correlation_risk |-> correlation_risk,
             leverage_ratio |-> RDiv(total_exposure, Int2R(100)),
             risk_score |-> risk_score]
    IN
    IF pv # 0
    THEN result(PyMin(Int2R(100),
                      RAdd(weighted,
                           RWeighted(PyMin(RMul(RDiv(var_95, Int2R(pv)), Int2R(100)),
                                           Int2R(50)), 4))))
    \* var_95 / portfolio_value with portfolio_value 0: a Python float raises;
    \* the numpy float that np.std returns gives inf, or nan for 0 / 0, and
    \* min() keeps a nan that comes first and drops one that comes second
    ELSE IF Cardinality(keys) <= 1 THEN ZeroDivisionError
    ELSE IF RPos(var_95)
    THEN result(PyMin(Int2R(100), RAdd(weighted, RWeighted(Int2R(50), 4))))
    ELSE result(Int2R(100))

----------------------------------------------------------------------------
(* calculate_portfolio_risk_metrics called on its own *)

RiskSymbols == {"BTC/USDT", "XRP/USDT"}

\* a position with its metrics: the position value, its share of the
\* portfolio in percent and the unrealized pnl
PositionEntries ==
    {[position |-> [entry |-> 100, stop |-> 97, amount |-> 2],
      metrics |-> [position_value |-> v, position_size_pct |-> p, unrealized_pnl |-> u]] :
         v \in {200}, p \in {0, 20}, u \in {-20, 0, 20}}
    \cup {[position |-> [entry |-> 100, amount |-> 40],
           metrics |-> [position_value |-> 4000, position_size_pct |-> 400,
                        unrealized_pnl |-> 0]]}

PositionsData == UNION {[keys -> PositionEntries] : keys \in SUBSET RiskSymbols}

InitRisk ==
    /\ positions_data \in PositionsData
    /\ portfolio_value \in PortfolioValues
    /\ position = EmptyDict
    /\ current_price_data = EmptyDict
    /\ now = 0
    /\ PRICE_CACHE = EmptyCache
    /\ PRICE_CACHE_TIMESTAMP = None
    /\ symbols = {}
    /\ contacted = {}
    /\ completed = <<>>
    /\ callee = "none"
    /\ ret = NotCalled
    /\ StatsIdle
    /\ current_balance = 0
    /\ ProjIdle
    /\ MCIdle
    /\ RngIdle

CallPortfolioRiskMetrics ==
    /\ callee' = "calculate_portfolio_risk_metrics"
    /\ ret' = calculate_portfolio_risk_metrics(positions_data, portfolio_value)
    /\ UNCHANGED <<statsArgs, projArgs, rngVars, liveVars, mcVars>>

NextRisk == CallPortfolioRiskMetrics

SpecRisk == InitRisk /\ [][NextRisk]_vars

\* C25: calculate_portfolio_risk_metrics returns a risk_score within 0..100
\* for every positions_data and every portfolio_value, including
\* portfolio_value = 0, where the exposure terms resolve to 0 and no
\* exception is raised; for empty positions_data it returns all-zero metrics
\* with correlation_risk 'LOW'.
C25_RiskScoreBounded ==
    callee = "calculate_portfolio_risk_metrics" =>
        /\ IsResult(ret)
        /\ RLe(Int2R(0), ret.risk_score)
        /\ RLe(ret.risk_score, Int2R(100))
        /\ portfolio_value = 0 =>
              ret.total_exposure = Int2R(0) /\ ret.leverage_ratio = Int2R(0)
        /\ DOMAIN positions_data = {} =>
              /\ ret.total_exposure = Int2R(0)
              /\ ret.concentration_risk = Int2R(0)
              /\ ret.var_95 = Int2R(0)
              /\ ret.max_drawdown_risk = 0
              /\ ret.leverage_ratio = Int2R(0)
              /\ ret.risk_score = Int2R(0)
              /\ ret.correlation_risk = "LOW"

----------------------------------------------------------------------------
(* live_positions.py: get_live_prices_multi_source and the price cache.    *)
(* A datetime is the record of its seconds; a price entry is its source    *)
(* and its 'timestamp', the quote itself being that of the moment of the   *)
(* fetch.  A fetch is taken to return at the moment it is made.            *)

CACHE_DURATION == 10

DateTime(t) == [epoch |-> t]

\* timedelta.seconds of later - earlier: the seconds within the last day
TimedeltaSeconds(later, earlier) == (later.epoch - earlier.epoch) % SecondsPerDay

Symbols == {"BTC/USDT", "ETH/USDT"}

CacheIsUsedMutant(requested) ==
    /\ PRICE_CACHE_TIMESTAMP # None
    /\ TimedeltaSeconds(DateTime(now), PRICE_CACHE_TIMESTAMP) < CACHE_DURATION \div 2
    /\ \A symbol \in requested : symbol \in DOMAIN PRICE_CACHE

\* "Check cache first"
CacheIsUsed(requested) ==
    /\ PRICE_CACHE_TIMESTAMP # None
    /\ TimedeltaSeconds(DateTime(now), PRICE_CACHE_TIMESTAMP) < CACHE_DURATION
    /\ \A symbol \in requested : symbol \in DOMAIN PRICE_CACHE

\* the futures dict, in the order of the three executor.submit calls
Sources == <<"Binance", "CoinGecko", "CoinMarketCap">>

\* a completed future: the source it was submitted for and the symbols of
\* the dict its fetch returned.  A fetch that fails has caught its own
\* exception and returns what it had collected until then, {} at the least.
Future(source, result) == [source |-> source, result |-> result]

RECURSIVE SourceResultsLoopMutant(_, _, _)
SourceResultsLoopMutant(done, i, source_results) ==
    IF i > Len(done) THEN source_results
    ELSE SourceResultsLoopMutant(done, i + 1,
             [name \in DOMAIN source_results \cup {Sources[i]} |->
                 IF name = Sources[i] THEN done[i].result ELSE source_results[name]])

\* "for future in as_completed(futures)": source_results[source_name] = result
RECURSIVE SourceResultsLoop(_, _, _)
SourceResultsLoop(done, i, source_results) ==
    IF i > Len(done) THEN source_results
    ELSE SourceResultsLoop(done, i + 1,
             [name \in DOMAIN source_results \cup {done[i].source} |->
                 IF name = done[i].source THEN done[i].result ELSE source_results[name]])

SourceResults(done) == SourceResultsLoop(done, 1, [name \in {} |-> {}])

\* the orders in which as_completed can hand out the three futures
CompletionOrders ==
    {order \in [1..Len(Sources) -> {Sources[i] : i \in DOMAIN Sources}] :
        \A i, j \in DOMAIN order : i # j => order[i] # order[j]}

FallbackOutcomes == {"200", "failed", "raised"}

\* "Merge results with priority": the source of the entry of one symbol,
\* "none" when the individual request is answered with another status
SourceOf(symbol, binance, coingecko, coinmarketcap, fallback) ==
    IF symbol \in binance THEN "Binance"
    ELSE IF symbol \in coingecko THEN "CoinGecko"
    ELSE IF symbol \in coinmarketcap THEN "CoinMarketCap"
    ELSE IF fallback[symbol] = "200" THEN "Binance (Individual)"
    ELSE IF fallback[symbol] = "raised" THEN "ERROR"
    ELSE "none"

\* the dict prices after the merge loop
MergedPrices(requested, binance, coingecko, coinmarketcap, fallback) ==
    LET priced == {symbol \in requested :
                      SourceOf(symbol, binance, coingecko, coinmarketcap, fallback) # "none"}
    IN [symbol \in priced |->
           [source |-> SourceOf(symbol, binance, coingecko, coinmarketcap, fallback),
            timestamp |-> DateTime(now)]]

\* PRICE_CACHE.update(prices)
DictUpdate(cache, prices) ==
    [symbol \in DOMAIN cache \cup DOMAIN prices |->
        IF symbol \in DOMAIN prices THEN prices[symbol] ELSE cache[symbol]]

\* the requests.get calls of one fetch: the Binance ticker always, CoinGecko
\* when a requested symbol has a CoinGecko id (all of Symbols have one), the
\* individual Binance request for a symbol that no source has answered;
\* fetch_coinmarketcap_prices sends nothing
RequestsSent(requested, unpriced) ==
    {"Binance"} \cup (IF requested # {} THEN {"CoinGecko"} ELSE {})
                \cup (IF unpriced # {} THEN {"Binance (Individual)"} ELSE {})

\* from "Merge results with priority" to the return: the merge loop with
\* its individual requests, the cache update and the returned prices
MergeAndUpdate(requested, done, source_results) ==
    LET from_binance == Get(source_results, "Binance", {})
        from_coingecko == Get(source_results, "CoinGecko", {})
        from_coinmarketcap == Get(source_results, "CoinMarketCap", {})
        unpriced == requested \ (from_binance \cup from_coingecko \cup from_coinmarketcap)
    IN \E fallback \in [unpriced -> FallbackOutcomes] :
        LET prices == MergedPrices(requested, from_binance, from_coingecko,
                                   from_coinmarketcap, fallback)
        IN /\ PRICE_CACHE' = DictUpdate(PRICE_CACHE, prices)
           /\ PRICE_CACHE_TIMESTAMP' = DateTime(now)
           /\ contacted' = RequestsSent(requested, unpriced)
           /\ completed' = done
           /\ ret' = prices

\* the executor block: the three fetches are submitted together and
\* as_completed hands their futures out in the order they complete
FetchAndMerge(requested, returned, order) ==
    LET done == [i \in DOMAIN order |-> Future(order[i], returned[order[i]])]
    IN MergeAndUpdate(requested, done, SourceResults(done))

\* get_live_prices_multi_source(symbols): the cached entries, or the merge
\* of what the sources answer, which also updates the cache
CallGetLivePrices ==
    \E requested \in SUBSET Symbols :
        /\ callee' = "get_live_prices_multi_source"
        /\ symbols' = requested
        /\ IF CacheIsUsed(requested)
           THEN /\ ret' = [symbol \in requested |-> PRICE_CACHE[symbol]]
                /\ contacted' = {}
                /\ completed' = <<>>
                /\ UNCHANGED <<PRICE_CACHE, PRICE_CACHE_TIMESTAMP>>
           ELSE \E binance \in SUBSET requested, coingecko \in SUBSET requested,
                   order \in CompletionOrders :
                    FetchAndMerge(requested,
                                  [Binance |-> binance, CoinGecko |-> coingecko,
                                   CoinMarketCap |-> {}],
                                  order)
        /\ UNCHANGED <<statsArgs, projArgs, rngVars, mcVars, positionArgs, now>>

\* the REFRESH PRICES button: PRICE_CACHE = {}, PRICE_CACHE_TIMESTAMP = None
ClearPriceCache ==
    /\ PRICE_CACHE' = EmptyCache
    /\ PRICE_CACHE_TIMESTAMP' = None
    /\ callee' = "clear_price_cache"
    /\ ret' = None
    /\ UNCHANGED <<statsArgs, projArgs, rngVars, mcVars, positionArgs, fetchVars, now>>

\* the clock moves on between two calls
MaxClock == 12
TickSeconds == {6}

Tick ==
    /\ \E d \in TickSeconds :
          /\ now + d <= MaxClock
          /\ now' = now + d
    /\ UNCHANGED <<statsArgs, projArgs, rngVars, mcVars, callee, ret, positionArgs,
                   fetchVars, PRICE_CACHE, PRICE_CACHE_TIMESTAMP>>

\* a day goes by without a call
NextDay ==
    /\ now < SecondsPerDay
    /\ now' = now + SecondsPerDay
    /\ UNCHANGED <<statsArgs, projArgs, rngVars, mcVars, callee, ret, positionArgs,
                   fetchVars, PRICE_CACHE, PRICE_CACHE_TIMESTAMP>>

InitPrices ==
    /\ PRICE_CACHE = EmptyCache
    /\ PRICE_CACHE_TIMESTAMP = None
    /\ now = 0
    /\ position = EmptyDict
    /\ current_price_data = EmptyDict
    /\ portfolio_value = 0
    /\ positions_data = EmptyDict
    /\ symbols = {}
    /\ contacted = {}
    /\ completed = <<>>
    /\ callee = "none"
    /\ ret = NotCalled
    /\ StatsIdle
    /\ current_balance = 0
    /\ ProjIdle
    /\ MCIdle
    /\ RngIdle

NextPrices == CallGetLivePrices \/ ClearPriceCache \/ Tick \/ NextDay

SpecPrices == InitPrices /\ [][NextPrices]_vars

\* C20: across any sequence of get_live_prices_multi_source calls and cache
\* clears, a call never returns a price entry that was fetched more than
\* CACHE_DURATION seconds before that call.
C20_NoStaleEntry ==
    [][(callee' = "get_live_prices_multi_source" /\ now' = now) =>
          \A symbol \in DOMAIN ret' :
              now - ret'[symbol].timestamp.epoch <= CACHE_DURATION]_vars

\* C21: a get_live_prices_multi_source call made less than CACHE_DURATION
\* seconds after the previous fetch (the cache not cleared since) and
\* requesting only symbols already in PRICE_CACHE contacts no price source,
\* returns exactly the cached entries of the requested symbols and leaves
\* PRICE_CACHE and PRICE_CACHE_TIMESTAMP unchanged; with the cache cleared
\* (PRICE_CACHE_TIMESTAMP = None) a call always refetches.
C21_CacheHit ==
    [][(callee' = "get_live_prices_multi_source" /\ now' = now) =>
          /\ ( /\ PRICE_CACHE_TIMESTAMP # None
               /\ now >= PRICE_CACHE_TIMESTAMP.epoch
               /\ now - PRICE_CACHE_TIMESTAMP.epoch < CACHE_DURATION
               /\ symbols' \subseteq DOMAIN PRICE_CACHE )
                => /\ contacted' = {}
                   /\ ret' = [symbol \in symbols' |-> PRICE_CACHE[symbol]]
                   /\ PRICE_CACHE' = PRICE_CACHE
                   /\ PRICE_CACHE_TIMESTAMP' = PRICE_CACHE_TIMESTAMP
          /\ PRICE_CACHE_TIMESTAMP = None
                => /\ contacted' # {}
                   /\ PRICE_CACHE_TIMESTAMP' = DateTime(now)]_vars

\* a call answered from a cache filled 6 seconds before
C21_Witness ==
    /\ callee = "get_live_prices_multi_source"
    /\ symbols # {}
    /\ contacted = {}
    /\ PRICE_CACHE_TIMESTAMP # None
    /\ now > PRICE_CACHE_TIMESTAMP.epoch
    /\ now - PRICE_CACHE_TIMESTAMP.epoch < CACHE_DURATION
    /\ ret = [symbol \in symbols |-> PRICE_CACHE[symbol]]

\* what the fetch submitted for one source has returned
ResultOf(source) ==
    LET i == CHOOSE j \in DOMAIN completed : completed[j].source = source
    IN completed[i].result

\* the source the stated priority gives a symbol; the individual request
\* when none of the three fetches has returned the symbol
PrioritySource(symbol) ==
    IF symbol \in ResultOf("Binance") THEN "Binance"
    ELSE IF symbol \in ResultOf("CoinGecko") THEN "CoinGecko"
    ELSE IF symbol \in ResultOf("CoinMarketCap") THEN "CoinMarketCap"
    ELSE "Binance (Individual)"

\* C22: in get_live_prices_multi_source the price entry chosen for each
\* requested symbol follows the fixed priority Binance, then CoinGecko, then
\* CoinMarketCap, then the individual Binance request (whose failure leaves
\* an ERROR entry or none), and is the same for every order in which the
\* three concurrently submitted source fetches complete or fail.
C22_FixedPriority ==
    (callee = "get_live_prices_multi_source" /\ completed # <<>>) =>
        /\ \A symbol \in symbols :
              IF PrioritySource(symbol) # "Binance (Individual)"
              THEN /\ symbol \in DOMAIN ret
                   /\ ret[symbol].source = PrioritySource(symbol)
              ELSE symbol \in DOMAIN ret =>
                       ret[symbol].source \in {"Binance (Individual)", "ERROR"}
        /\ \A order \in Perms(completed) :
              SourceResults(order) = SourceResults(completed)

\* CoinGecko has completed first and returned both symbols, Binance only one
C22_Witness ==
    /\ callee = "get_live_prices_multi_source"
    /\ completed # <<>>
    /\ completed[1].source = "CoinGecko"
    /\ symbols = Symbols
    /\ ResultOf("Binance") = {"BTC/USDT"}
    /\ ResultOf("CoinGecko") = Symbols
    /\ ret["BTC/USDT"].source = "Binance"
    /\ ret["ETH/USDT"].source = "CoinGecko"

====
